---- MODULE Spec2Model ----
(***************************************************************************)
(* A model of connect-rpc-rs: the streaming envelope codec                 *)
(* (src/src/stream.rs), the request and response builders                  *)
(* (src/src/request/builder.rs, src/src/response/builder.rs), the          *)
(* inbound request dispatch (src/src/request.rs) and the conformance       *)
(* driver (src/conformance/src/main.rs).                                   *)
(***************************************************************************)
EXTENDS Integers, Sequences, FiniteSets, TLC

(***************************************************************************)
(* Bounds of the model.                                                    *)
(***************************************************************************)
\* Total number of bytes the byte source delivers to one codec.
MaxInput == 10
\* Iterations of feed's loop that are followed before the call is recorded
\* as not returning (a returning call makes at most MaxInput \div 5 + 1).
MaxLoop == 6

\* The byte values the source draws from: 0, 2 (a length of two, a flags
\* byte with only bit 0b10 set) and 255 (every flag bit set; four of them
\* make a length of 2^32 - 1).
Bytes == {0, 2, 255}

\* Pointer widths of the build targets (usize is 32 or 64 bits wide).
PtrWidths == {32, 64}

VARIABLES
    buf,        \* FrameParseState.buf
    failed,     \* FrameParseState.failed
    out,        \* the items the frame stream has yielded so far
    fed,        \* the concatenation of the data chunks fed before any failure
    srcErr,     \* the byte source has reported an error
    lateFrame,  \* a chunk fed after the failure completed the buffered frame
    emitted,    \* how many items the last feed call returned
    ended,      \* the end of the byte stream (None) has been fed
    hung,       \* a feed call is running and never returns
    ptrWidth,   \* width of usize on the build target
    side,       \* which builder the caller drives: "request" or "response"
    stage,      \* "building", "built" (a build method returned), "error" (a
                \* setter returned an error), or "inbound"
    builder,    \* the RequestBuilder, as it was when last used
    rbuilder,   \* the ResponseBuilder, as it was when last used
    message,    \* the message given to unary_get
    req,        \* None, or the Result the request builder ended with
    resp,       \* None, or the Result the response builder ended with
    timeoutArg, \* None, or the argument of the last timeout_ms call that no
                \* clear_timeout call followed
    http_req,   \* None, or an http::Request that arrived
    classified, \* None, or the variant from_http chose for http_req
    validated,  \* None, or the Result of validate() on the classified request
    accessed,   \* None, or what the accessors of a request returned
    http_resp,  \* None, or an http::Response that arrived, with its body
    resp_kind,  \* the wrapper of http_resp: "Unary" or "Streaming"
    opts,       \* the ValidateOpts of the caller
    outcome,    \* None, or the last call on the response with what it returned
    meta,       \* a HeaderMap used through the Metadata trait
    call,       \* None, or the last Metadata call with what it returned
    driver      \* the conformance driver: main's position and its tasks

codecVars ==
    <<buf, failed, out, fed, srcErr, lateFrame, emitted, ended, hung, ptrWidth>>

buildVars == <<side, stage, builder, rbuilder, message, req, resp, timeoutArg>>

dispatchVars == <<http_req, classified, validated, accessed>>

respondVars == <<http_resp, resp_kind, opts, outcome>>

metaVars == <<meta, call>>

driverVars == <<driver>>

vars == <<codecVars, buildVars, dispatchVars, respondVars, metaVars, driverVars>>

\* What an action of one component leaves alone: the other components.
notCodec == <<buildVars, dispatchVars, respondVars, metaVars, driverVars>>
notBuild == <<codecVars, dispatchVars, respondVars, metaVars, driverVars>>
notDispatch == <<codecVars, buildVars, respondVars, metaVars, driverVars>>
notRespond == <<codecVars, buildVars, dispatchVars, metaVars, driverVars>>
notMeta == <<codecVars, buildVars, dispatchVars, respondVars, driverVars>>
notDriver == <<codecVars, buildVars, dispatchVars, respondVars, metaVars>>

(***************************************************************************)
(* Sequences of bytes.                                                     *)
(***************************************************************************)
RECURSIVE SeqsOfLen(_, _)
SeqsOfLen(S, n) ==
    IF n = 0 THEN {<<>>}
    ELSE {<<x>> \o s : x \in S, s \in SeqsOfLen(S, n - 1)}

Drop(s, n) == SubSeq(s, n + 1, Len(s))

(***************************************************************************)
(* stream.rs: the frame parser.                                            *)
(***************************************************************************)
FLAGS_COMPRESSED == 1
FLAGS_END == 1

\* flags & mask != 0, for a mask of one bit.
BitSet(flags, mask) == (flags \div mask) % 2 = 1

\* Buf::get_u32 on the four bytes b: the big-endian u32, kept as two
\* 16-bit limbs.
GetU32(b) == [hi |-> b[1] * 256 + b[2], lo |-> b[3] * 256 + b[4]]

\* (data_len as u64) + 5: a u64 kept as 16-bit limbs, top holding the bits
\* from 2^32 up.
FrameLen64(data_len) ==
    LET s == data_len.lo + 5
        h == data_len.hi + (s \div 65536)
    IN  [top |-> h \div 65536, hi |-> h % 65536, lo |-> s % 65536]

\* u64 -> usize try_into succeeds: the value is below 2^w.
FitsUsize(v, w) == IF w >= 64 THEN TRUE ELSE v.top = 0

\* n < v for a buffer length n (below 2^16) and a limb value v.
LenLess(n, v) == v.top > 0 \/ v.hi > 0 \/ n < v.lo

\* Mutant of Frame: end is read from the second bit.
Frame_EndSecondBit(flags, data) ==
    [kind |-> "frame",
     compressed |-> BitSet(flags, FLAGS_COMPRESSED),
     end |-> BitSet(flags, 2 * FLAGS_END),
     data |-> data]

Frame(flags, data) ==
    [kind |-> "frame",
     compressed |-> BitSet(flags, FLAGS_COMPRESSED),
     end |-> BitSet(flags, FLAGS_END),
     data |-> data]

ErrItem(msg) == [kind |-> "err", msg |-> msg]

\* Mutant of ParseFrame: the header is split off after 4 bytes, not 5.
ParseFrameSplitOff4(b, w) ==
    IF Len(b) < 5 THEN [tag |-> "none", rest |-> b]
    ELSE LET frame_len == FrameLen64(GetU32(SubSeq(b, 2, 5)))
         IN  IF ~FitsUsize(frame_len, w)
                 THEN [tag |-> "err", rest |-> b]
             ELSE IF LenLess(Len(b), frame_len)
                 THEN [tag |-> "none", rest |-> b]
             ELSE [tag |-> "some",
                   frame |-> Frame(b[1], SubSeq(b, 5, frame_len.lo)),
                   rest |-> Drop(b, frame_len.lo)]

\* parse_frame on buffer b: Ok(None), Err, or Ok(Some(frame)) with the
\* buffer left behind.
ParseFrame(b, w) ==
    IF Len(b) < 5 THEN [tag |-> "none", rest |-> b]
    ELSE LET frame_len == FrameLen64(GetU32(SubSeq(b, 2, 5)))
         IN  IF ~FitsUsize(frame_len, w)
                 THEN [tag |-> "err", rest |-> b]
             ELSE IF LenLess(Len(b), frame_len)
                 THEN [tag |-> "none", rest |-> b]
             ELSE [tag |-> "some",
                   frame |-> Frame(b[1], SubSeq(b, 6, frame_len.lo)),
                   rest |-> Drop(b, frame_len.lo)]

\* Mutant of FeedLoop: the loop returns after the first frame.
FeedLoopOnce(b, f, frames, w, fuel) ==
    LET r == ParseFrame(b, w)
    IN  IF r.tag = "some"
            THEN [buf |-> r.rest, failed |-> f,
                  items |-> Append(frames, r.frame), hung |-> FALSE]
            ELSE [buf |-> b, failed |-> r.tag = "err",
                  items |-> IF r.tag = "err"
                                THEN Append(frames, ErrItem("frame too large"))
                                ELSE frames,
                  hung |-> FALSE]

\* Mutant of FeedLoop: the loop returns after a frame with the end flag.
RECURSIVE FeedLoopStopAtEnd(_, _, _, _, _)
FeedLoopStopAtEnd(b, f, frames, w, fuel) ==
    IF fuel = 0 THEN [buf |-> b, failed |-> f, items |-> frames, hung |-> TRUE]
    ELSE LET r == ParseFrame(b, w)
         IN  CASE r.tag = "some" /\ r.frame.end ->
                    [buf |-> r.rest, failed |-> f,
                     items |-> Append(frames, r.frame), hung |-> FALSE]
               [] r.tag = "some" /\ ~r.frame.end ->
                    FeedLoopStopAtEnd(r.rest, f, Append(frames, r.frame), w,
                                      fuel - 1)
               [] r.tag = "none" ->
                    [buf |-> b, failed |-> f, items |-> frames, hung |-> FALSE]
               [] r.tag = "err" ->
                    FeedLoopStopAtEnd(b, TRUE,
                                      Append(frames, ErrItem("frame too large")),
                                      w, fuel - 1)

\* The loop of feed, from buffer b with frames collected so far; fuel
\* counts the iterations still followed.  hung: the loop was still running
\* when the fuel ran out.
RECURSIVE FeedLoop(_, _, _, _, _)
FeedLoop(b, f, frames, w, fuel) ==
    IF fuel = 0 THEN [buf |-> b, failed |-> f, items |-> frames, hung |-> TRUE]
    ELSE LET r == ParseFrame(b, w)
         IN  CASE r.tag = "some" ->
                    FeedLoop(r.rest, f, Append(frames, r.frame), w, fuel - 1)
               [] r.tag = "none" ->
                    [buf |-> b, failed |-> f, items |-> frames, hung |-> FALSE]
               [] r.tag = "err" ->
                    FeedLoop(b, TRUE, Append(frames, ErrItem("frame too large")),
                             w, fuel - 1)

\* Mutant of Feed: the failed flag is not consulted on entry.
FeedNoFailedCheck(st, item, w) ==
    IF item.some = "err"
        THEN [buf |-> st.buf, failed |-> TRUE,
              items |-> <<ErrItem("source")>>, hung |-> FALSE]
    ELSE IF item.some = "none"
        THEN [buf |-> st.buf, failed |-> st.failed,
              items |-> IF st.buf # <<>>
                            THEN <<ErrItem("partial frame at end of stream")>>
                            ELSE <<>>,
              hung |-> FALSE]
    ELSE FeedLoop(st.buf \o item.data, st.failed, <<>>, w, MaxLoop)

\* Mutant of Feed: at the end of the stream only a buffered header counts
\* as a partial frame.
FeedEndNeedsHeader(st, item, w) ==
    IF st.failed
        THEN [buf |-> st.buf, failed |-> TRUE, items |-> <<>>, hung |-> FALSE]
    ELSE IF item.some = "err"
        THEN [buf |-> st.buf, failed |-> TRUE,
              items |-> <<ErrItem("source")>>, hung |-> FALSE]
    ELSE IF item.some = "none"
        THEN [buf |-> st.buf, failed |-> FALSE,
              items |-> IF Len(st.buf) >= 5
                            THEN <<ErrItem("partial frame at end of stream")>>
                            ELSE <<>>,
              hung |-> FALSE]
    ELSE FeedLoop(st.buf \o item.data, FALSE, <<>>, w, MaxLoop)

\* feed(item) on the state st = [buf, failed]: the state after, the items
\* returned, and whether the call returns at all.
\* item: [some |-> "data", data], [some |-> "err"] or [some |-> "none"].
Feed(st, item, w) ==
    IF st.failed
        THEN [buf |-> st.buf, failed |-> TRUE, items |-> <<>>, hung |-> FALSE]
    ELSE IF item.some = "err"
        THEN [buf |-> st.buf, failed |-> TRUE,
              items |-> <<ErrItem("source")>>, hung |-> FALSE]
    ELSE IF item.some = "none"
        THEN [buf |-> st.buf, failed |-> FALSE,
              items |-> IF st.buf # <<>>
                            THEN <<ErrItem("partial frame at end of stream")>>
                            ELSE <<>>,
              hung |-> FALSE]
    ELSE FeedLoop(st.buf \o item.data, FALSE, <<>>, w, MaxLoop)

(***************************************************************************)
(* bytes_stream: the source's items, then None, each given to feed; the    *)
(* items a returning feed call hands back are yielded in order.            *)
(***************************************************************************)
InitCodec ==
    /\ buf = <<>>
    /\ failed = FALSE
    /\ out = <<>>
    /\ fed = <<>>
    /\ srcErr = FALSE
    /\ lateFrame = FALSE
    /\ emitted = 0
    /\ ended = FALSE
    /\ hung = FALSE
    /\ ptrWidth \in PtrWidths

Step(item) ==
    LET r == Feed([buf |-> buf, failed |-> failed], item, ptrWidth)
    IN  /\ buf' = r.buf
        /\ failed' = r.failed
        /\ hung' = r.hung
        /\ out' = IF r.hung THEN out ELSE out \o r.items
        /\ emitted' = IF r.hung THEN 0 ELSE Len(r.items)
        /\ UNCHANGED notCodec

\* The source yields a data chunk.
FeedChunk ==
    /\ ~ended /\ ~hung
    /\ \E n \in 0..(MaxInput - Len(fed)) :
         \E chunk \in SeqsOfLen(Bytes, n) :
            /\ Step([some |-> "data", data |-> chunk])
            /\ fed' = IF failed THEN fed ELSE fed \o chunk
            /\ lateFrame' = (lateFrame \/
                  (failed /\ ParseFrame(buf \o chunk, ptrWidth).tag = "some"))
    /\ UNCHANGED <<srcErr, ended, ptrWidth>>

\* The source yields an error.
FeedError ==
    /\ ~ended /\ ~hung
    /\ Step([some |-> "err"])
    /\ srcErr' = TRUE
    /\ UNCHANGED <<fed, lateFrame, ended, ptrWidth>>

\* The source is exhausted: the chained None.
FeedEnd ==
    /\ ~ended /\ ~hung
    /\ Step([some |-> "none"])
    /\ ended' = TRUE
    /\ UNCHANGED <<fed, srcErr, lateFrame, ptrWidth>>

NextCodec == FeedChunk \/ FeedError \/ FeedEnd

(***************************************************************************)
(* Text.  A string is a TLA+ string; its i-th character is the one-        *)
(* character string CharAt(s, i).                                          *)
(***************************************************************************)
CharAt(s, i) == SubSeq(s, i, i)

StartsWith(s, prefix) ==
    Len(s) >= Len(prefix) /\ SubSeq(s, 1, Len(prefix)) = prefix

EndsWith(s, suffix) ==
    Len(s) >= Len(suffix) /\ SubSeq(s, Len(s) - Len(suffix) + 1, Len(s)) = suffix

\* str::strip_prefix, when StartsWith(s, prefix).
StripPrefix(s, prefix) == SubSeq(s, Len(prefix) + 1, Len(s))

\* The character c occurs in s.
Contains(s, c) == \E i \in 1..Len(s) : CharAt(s, i) = c

\* The position of the character c in s (0 when it does not occur).
IndexOf(s, c) ==
    IF Contains(s, c) THEN CHOOSE i \in 1..Len(s) : CharAt(s, i) = c ELSE 0

UpperAlpha == "ABCDEFGHIJKLMNOPQRSTUVWXYZ"
LowerAlpha == "abcdefghijklmnopqrstuvwxyz"
Digits == "0123456789"

IsAsciiAlphanumeric(c) ==
    Contains(UpperAlpha, c) \/ Contains(LowerAlpha, c) \/ Contains(Digits, c)

\* char::to_ascii_lowercase
ToAsciiLowercase(c) ==
    IF Contains(UpperAlpha, c) THEN CharAt(LowerAlpha, IndexOf(UpperAlpha, c))
    ELSE c

\* String::make_ascii_lowercase
RECURSIVE MakeAsciiLowercase(_)
MakeAsciiLowercase(s) ==
    IF s = "" THEN ""
    ELSE ToAsciiLowercase(CharAt(s, 1)) \o MakeAsciiLowercase(SubSeq(s, 2, Len(s)))

(***************************************************************************)
(* Option<T>: None is the empty sequence, Some(x) the sequence <<x>>.      *)
(***************************************************************************)
None == <<>>
Some(x) == <<x>>
IsSome(o) == o # <<>>
Unwrap(o) == o[1]

(***************************************************************************)
(* common.rs                                                               *)
(***************************************************************************)
CONNECT_PROTOCOL_VERSION == "connect-protocol-version"
PROTOCOL_VERSION_1 == "1"
CONNECT_TIMEOUT_MS == "connect-timeout-ms"
CONNECT_CONTENT_ENCODING == "connect-content-encoding"
CONNECT_ACCEPT_ENCODING == "connect-accept-encoding"
CONTENT_TYPE_PREFIX == "application/"
STREAMING_CONTENT_TYPE_PREFIX == "application/connect+"
STREAMING_CONTENT_SUBTYPE_PREFIX == "connect+"
\* http::header constants
CONTENT_TYPE == "content-type"
CONTENT_ENCODING == "content-encoding"
ACCEPT_ENCODING == "accept-encoding"

\* The punctuation of an HTTP token.  The set in the source also holds the
\* grave accent, which a TLA+ string cannot hold; no text of the model
\* contains it.
TokenPunctuation == "!#$%&'*+-.^_|~"

is_valid_http_token(s) ==
    /\ s # ""
    /\ \A i \in 1..Len(s) :
          IsAsciiAlphanumeric(CharAt(s, i)) \/ Contains(TokenPunctuation, CharAt(s, i))

(***************************************************************************)
(* base64 (the base64 crate's STANDARD_NO_PAD and URL_SAFE_NO_PAD          *)
(* engines): three bytes make four characters, a last group of one byte    *)
(* two characters, of two bytes three; no padding is written.              *)
(***************************************************************************)
Base64Common == "ABCDEFGHIJKLMNOPQRSTUVWXYZabcdefghijklmnopqrstuvwxyz0123456789"
STANDARD_ALPHABET == Base64Common \o "+/"
URL_SAFE_ALPHABET == Base64Common \o "-_"

Sextet(alphabet, n) == CharAt(alphabet, n + 1)

RECURSIVE Base64Encode(_, _)
Base64Encode(alphabet, b) ==
    IF Len(b) = 0 THEN ""
    ELSE IF Len(b) = 1 THEN
        Sextet(alphabet, b[1] \div 4) \o Sextet(alphabet, (b[1] % 4) * 16)
    ELSE IF Len(b) = 2 THEN
        Sextet(alphabet, b[1] \div 4)
        \o Sextet(alphabet, (b[1] % 4) * 16 + b[2] \div 16)
        \o Sextet(alphabet, (b[2] % 16) * 4)
    ELSE
        Sextet(alphabet, b[1] \div 4)
        \o Sextet(alphabet, (b[1] % 4) * 16 + b[2] \div 16)
        \o Sextet(alphabet, (b[2] % 16) * 4 + b[3] \div 64)
        \o Sextet(alphabet, b[3] % 64)
        \o Base64Encode(alphabet, Drop(b, 3))

base64_encode(input) == Base64Encode(STANDARD_ALPHABET, input)

(***************************************************************************)
(* http::HeaderMap: a sequence of [name, value] entries, the values of one *)
(* name next to each other in the order they were added.                   *)
(***************************************************************************)
Entry(name, value) == [name |-> name, value |-> value]

HasName(h, name) == \E i \in 1..Len(h) : h[i].name = name

\* HeaderMap::get: the first value of the name.
HGet(h, name) ==
    IF HasName(h, name)
        THEN Some(h[CHOOSE i \in 1..Len(h) :
                      /\ h[i].name = name
                      /\ \A j \in 1..(i - 1) : h[j].name # name].value)
        ELSE None

RECURSIVE HGetAll(_, _)
\* HeaderMap::get_all: the values of the name, in order.
HGetAll(h, name) ==
    IF h = <<>> THEN <<>>
    ELSE (IF h[1].name = name THEN <<h[1].value>> ELSE <<>>)
         \o HGetAll(Tail(h), name)

RECURSIVE HRemoveAll(_, _)
HRemoveAll(h, name) ==
    IF h = <<>> THEN <<>>
    ELSE (IF h[1].name = name THEN <<>> ELSE <<h[1]>>) \o HRemoveAll(Tail(h), name)

\* HeaderMap::insert: the name keeps its place and holds the one value.
HInsert(h, name, value) ==
    IF HasName(h, name)
        THEN LET i == CHOOSE i \in 1..Len(h) :
                        /\ h[i].name = name
                        /\ \A j \in 1..(i - 1) : h[j].name # name
             IN  SubSeq(h, 1, i - 1) \o <<Entry(name, value)>>
                 \o HRemoveAll(SubSeq(h, i + 1, Len(h)), name)
        ELSE Append(h, Entry(name, value))

\* HeaderMap::append: the value is added after the values the name has.
HAppend(h, name, value) ==
    IF HasName(h, name)
        THEN LET i == CHOOSE i \in 1..Len(h) :
                        /\ h[i].name = name
                        /\ \A j \in (i + 1)..Len(h) : h[j].name # name
             IN  SubSeq(h, 1, i) \o <<Entry(name, value)>>
                 \o SubSeq(h, i + 1, Len(h))
        ELSE Append(h, Entry(name, value))

RECURSIVE HAppendAll(_, _, _)
HAppendAll(h, name, values) ==
    IF values = <<>> THEN h
    ELSE HAppendAll(HAppend(h, name, Head(values)), name, Tail(values))

\* HeaderName::try_from(&str): a non-empty token, stored in lower case.
HeaderNameFrom(key) ==
    IF is_valid_http_token(key) THEN Some(MakeAsciiLowercase(key)) ELSE None

AsciiGraphic ==
    UpperAlpha \o LowerAlpha \o Digits \o "!\"#$%&'()*+,-./:;<=>?@[\\]^_{|}~"

\* HeaderValue::to_str: the text, when every byte is visible ASCII or a tab.
ToStr(value) ==
    IF \A i \in 1..Len(value) :
          Contains(AsciiGraphic, CharAt(value, i)) \/ CharAt(value, i) \in {" ", "\t"}
        THEN Some(value)
        ELSE None

(***************************************************************************)
(* lib.rs: Error; Result<T, Error> is [ok |-> TRUE, v |-> t] or            *)
(* [ok |-> FALSE, error |-> e].                                            *)
(***************************************************************************)
Ok(v) == [ok |-> TRUE, v |-> v]
Err(kind, msg) == [ok |-> FALSE, error |-> [kind |-> kind, msg |-> msg]]

invalid_request(msg) == Err("InvalidRequest", msg)
InvalidMetadata(msg) == Err("InvalidMetadata", msg)

(***************************************************************************)
(* metadata.rs: the checked writes used by the builders.                   *)
(***************************************************************************)
BIN_SUFFIX == "-bin"

ascii_key(key) ==
    LET name == HeaderNameFrom(key)
    IN  IF ~IsSome(name) THEN Err("InvalidHeaderName", key)
        ELSE IF EndsWith(Unwrap(name), BIN_SUFFIX)
            THEN InvalidMetadata("ASCII metadata keys may not end with '-bin'")
        ELSE Ok(Unwrap(name))

binary_key(key) ==
    LET name == HeaderNameFrom(key)
    IN  IF ~IsSome(name) THEN Err("InvalidHeaderName", key)
        ELSE IF ~EndsWith(Unwrap(name), BIN_SUFFIX)
            THEN InvalidMetadata("binary metadata keys must end with '-bin'")
        ELSE Ok(Unwrap(name))

\* ascii_value letting a tab through, as HeaderValue itself does.
ascii_value_AllowTab(value) ==
    IF ~\A i \in 1..Len(value) :
           Contains(AsciiGraphic, CharAt(value, i)) \/ CharAt(value, i) \in {" ", "\t"}
        THEN InvalidMetadata(
            "ASCII metadata values may only contain printable characters and spaces")
        ELSE Ok(value)

ascii_value(value) ==
    IF ~\A i \in 1..Len(value) :
           Contains(AsciiGraphic, CharAt(value, i)) \/ CharAt(value, i) = " "
        THEN InvalidMetadata(
            "ASCII metadata values may only contain printable characters and spaces")
        ELSE Ok(value)

binary_value(value) == base64_encode(value)

append_ascii(h, key, val) ==
    LET k == ascii_key(key)
        v == ascii_value(val)
    IN  IF ~k.ok THEN k
        ELSE IF ~v.ok THEN v
        ELSE Ok(HAppend(h, k.v, v.v))

append_binary(h, key, val) ==
    LET k == binary_key(key)
    IN  IF ~k.ok THEN k
        ELSE Ok(HAppend(h, k.v, binary_value(val)))

insert_ascii(h, key, val) ==
    LET k == ascii_key(key)
        v == ascii_value(val)
    IN  IF ~k.ok THEN k
        ELSE IF ~v.ok THEN v
        ELSE Ok(HInsert(h, k.v, v.v))

insert_binary(h, key, val) ==
    LET k == binary_key(key)
    IN  IF ~k.ok THEN k
        ELSE Ok(HInsert(h, k.v, binary_value(val)))

(***************************************************************************)
(* base64 decoding (STANDARD_NO_PAD): every character is of the alphabet,  *)
(* so no padding; a last group of one character is no encoding; the bits   *)
(* of the last character that belong to no byte are zero.                  *)
(***************************************************************************)
SextetOf(alphabet, c) == IndexOf(alphabet, c) - 1

RECURSIVE Base64DecodeGroups(_, _)
Base64DecodeGroups(alphabet, text) ==
    LET n(i) == SextetOf(alphabet, CharAt(text, i))
    IN  IF Len(text) = 0 THEN Ok(<<>>)
        ELSE IF Len(text) = 1 THEN Err("Base64DecodeError", "invalid length")
        ELSE IF Len(text) = 2 THEN
            IF n(2) % 16 # 0 THEN Err("Base64DecodeError", "invalid last symbol")
            ELSE Ok(<<n(1) * 4 + n(2) \div 16>>)
        ELSE IF Len(text) = 3 THEN
            IF n(3) % 4 # 0 THEN Err("Base64DecodeError", "invalid last symbol")
            ELSE Ok(<<n(1) * 4 + n(2) \div 16, (n(2) % 16) * 16 + n(3) \div 4>>)
        ELSE LET rest == Base64DecodeGroups(alphabet, SubSeq(text, 5, Len(text)))
             IN  IF ~rest.ok THEN rest
                 ELSE Ok(<<n(1) * 4 + n(2) \div 16,
                           (n(2) % 16) * 16 + n(3) \div 4,
                           (n(3) % 4) * 64 + n(4)>> \o rest.v)

Base64Decode(alphabet, text) ==
    IF \E i \in 1..Len(text) : ~Contains(alphabet, CharAt(text, i))
        THEN Err("Base64DecodeError", "invalid byte")
        ELSE Base64DecodeGroups(alphabet, text)

\* base64_decode reading the URL-safe alphabet.
base64_decode_UrlSafe(b64) == Base64Decode(URL_SAFE_ALPHABET, b64)

base64_decode(b64) == Base64Decode(STANDARD_ALPHABET, b64)

(***************************************************************************)
(* metadata.rs: the reads.  A key given as text is looked up as            *)
(* HeaderMap::get does: through its header name, so in lower case, and a   *)
(* text that is no header name finds nothing.                              *)
(***************************************************************************)
TRAILER_PREFIX == "trailer-"

\* HeaderMap::get(&str)
HGetStr(h, key) ==
    IF IsSome(HeaderNameFrom(key)) THEN HGet(h, Unwrap(HeaderNameFrom(key))) ELSE None

\* HeaderMap::get_all(&str)
HGetAllStr(h, key) ==
    IF IsSome(HeaderNameFrom(key)) THEN HGetAll(h, Unwrap(HeaderNameFrom(key))) ELSE <<>>

\* get_maybe_trailer without the trailer lookup.
get_maybe_trailer_NoTrailer(h, key) == HGetStr(h, key)

get_maybe_trailer(h, key) ==
    IF IsSome(HGetStr(h, key)) THEN HGetStr(h, key)
    ELSE HGetStr(h, TRAILER_PREFIX \o key)

get_all_maybe_trailer(h, key, override_empty) ==
    IF override_empty THEN <<>>
    ELSE HGetAllStr(h, key) \o HGetAllStr(h, TRAILER_PREFIX \o key)

\* Option<&HeaderValue> to text: to_str().ok()
ToStrOk(found) == IF IsSome(found) THEN ToStr(Unwrap(found)) ELSE None

\* base64_decode(value).ok()
DecodeOk(value) ==
    IF base64_decode(value).ok THEN Some(base64_decode(value).v) ELSE None

RECURSIVE FilterMapToStr(_)
\* filter_map(|val| val.to_str().ok())
FilterMapToStr(values) ==
    IF values = <<>> THEN <<>>
    ELSE ToStr(Head(values)) \o FilterMapToStr(Tail(values))

RECURSIVE FilterMapDecode(_)
\* filter_map(|val| base64_decode(val).ok())
FilterMapDecode(values) ==
    IF values = <<>> THEN <<>>
    ELSE DecodeOk(Head(values)) \o FilterMapDecode(Tail(values))

get_ascii(h, key) ==
    IF EndsWith(key, BIN_SUFFIX) THEN None
    ELSE ToStrOk(get_maybe_trailer(h, key))

get_binary(h, key) ==
    IF ~EndsWith(key, BIN_SUFFIX) THEN None
    ELSE IF ~IsSome(get_maybe_trailer(h, key)) THEN None
    ELSE DecodeOk(Unwrap(get_maybe_trailer(h, key)))

get_all_ascii(h, key) ==
    FilterMapToStr(get_all_maybe_trailer(h, key, EndsWith(key, BIN_SUFFIX)))

get_all_binary(h, key) ==
    FilterMapDecode(get_all_maybe_trailer(h, key, ~EndsWith(key, BIN_SUFFIX)))

\* strip_prefix(TRAILER_PREFIX).unwrap_or(key)
StripTrailer(name) ==
    IF StartsWith(name, TRAILER_PREFIX) THEN StripPrefix(name, TRAILER_PREFIX) ELSE name

RECURSIVE iter_ascii(_)
\* The pairs <<key, text>> iter_ascii yields, in the order of the map.
iter_ascii(h) ==
    IF h = <<>> THEN <<>>
    ELSE (IF EndsWith(h[1].name, BIN_SUFFIX) \/ ~IsSome(ToStr(h[1].value))
              THEN <<>>
              ELSE << <<StripTrailer(h[1].name), h[1].value>> >>)
         \o iter_ascii(Tail(h))

RECURSIVE iter_binary(_)
\* The pairs <<key, bytes>> iter_binary yields, in the order of the map.
iter_binary(h) ==
    IF h = <<>> THEN <<>>
    ELSE (IF ~EndsWith(h[1].name, BIN_SUFFIX) \/ ~IsSome(DecodeOk(h[1].value))
              THEN <<>>
              ELSE << <<StripTrailer(h[1].name), Unwrap(DecodeOk(h[1].value))>> >>)
         \o iter_binary(Tail(h))

(***************************************************************************)
(* A u64 is kept as its base-100000 limbs, most significant first and      *)
(* without leading zero limbs: <<1500>> is 1500, <<99999, 99999>> is       *)
(* 9999999999, <<1, 0, 0>> is 10000000000.                                 *)
(***************************************************************************)
RECURSIVE DigitsOf(_)
\* The decimal text of a limb.
DigitsOf(n) ==
    IF n < 10 THEN CharAt(Digits, n + 1)
    ELSE DigitsOf(n \div 10) \o CharAt(Digits, (n % 10) + 1)

RECURSIVE ZeroPad(_, _)
ZeroPad(text, width) ==
    IF Len(text) >= width THEN text ELSE ZeroPad("0" \o text, width)

RECURSIVE LimbsText(_)
LimbsText(limbs) ==
    IF limbs = <<>> THEN ""
    ELSE ZeroPad(DigitsOf(Head(limbs)), 5) \o LimbsText(Tail(limbs))

\* u64::to_string
U64ToString(n) == DigitsOf(Head(n)) \o LimbsText(Tail(n))

(***************************************************************************)
(* form_urlencoded: byte_serialize and Serializer::append_pair.            *)
(***************************************************************************)
FormUnreserved == "*-._"
FormEscaped == "!#$%&'+^|~/=?"
FormEscapeCodes ==
    <<"%21", "%23", "%24", "%25", "%26", "%27", "%2B", "%5E", "%7C", "%7E",
      "%2F", "%3D", "%3F">>

RECURSIVE byte_serialize(_)
byte_serialize(text) ==
    IF text = "" THEN ""
    ELSE LET c == CharAt(text, 1)
         IN  (IF IsAsciiAlphanumeric(c) \/ Contains(FormUnreserved, c) THEN c
              ELSE IF c = " " THEN "+"
              ELSE FormEscapeCodes[IndexOf(FormEscaped, c)])
             \o byte_serialize(SubSeq(text, 2, Len(text)))

\* Serializer::append_pair on a serializer made by Serializer::new(target),
\* whose start position is 0: a separator is written whenever the target
\* already holds text.
append_pair(target, name, value) ==
    (IF Len(target) > 0 THEN target \o "&" ELSE target)
    \o byte_serialize(name) \o "=" \o byte_serialize(value)

(***************************************************************************)
(* http::Uri                                                               *)
(***************************************************************************)
\* PathAndQuery::try_from: no blank, control or non-ASCII character, and no
\* fragment.
ValidPathAndQuery(text) ==
    \A i \in 1..Len(text) :
        Contains(AsciiGraphic, CharAt(text, i)) /\ CharAt(text, i) # "#"

\* Uri::path: the text before the first question mark.
UriPath(paq) ==
    IF Contains(paq, "?") THEN SubSeq(paq, 1, IndexOf(paq, "?") - 1) ELSE paq

\* Uri::query: the text after the first question mark, if there is one.
UriQuery(paq) ==
    IF Contains(paq, "?")
        THEN Some(SubSeq(paq, IndexOf(paq, "?") + 1, Len(paq)))
        ELSE None

\* build_uri: Uri::from_parts wants an authority and a path with a scheme,
\* and a scheme where an authority and a path are given.
build_uri(scheme, authority, path_and_query) ==
    IF IsSome(path_and_query) /\ ~ValidPathAndQuery(Unwrap(path_and_query))
        THEN Err("InvalidUri", Unwrap(path_and_query))
    ELSE IF IsSome(scheme) /\ ~IsSome(authority)
        THEN Err("InvalidUriParts", "authority missing")
    ELSE IF IsSome(scheme) /\ ~IsSome(path_and_query)
        THEN Err("InvalidUriParts", "path missing")
    ELSE IF ~IsSome(scheme) /\ IsSome(authority) /\ IsSome(path_and_query)
        THEN Err("InvalidUriParts", "scheme missing")
    ELSE Ok([scheme |-> scheme, authority |-> authority,
             path_and_query |-> path_and_query])

(***************************************************************************)
(* request/builder.rs: RequestBuilder.  A setter consumes the builder and  *)
(* returns it changed, or an error.                                        *)
(***************************************************************************)
DefaultRequestBuilder ==
    [scheme |-> None, authority |-> None, path |-> None, metadata |-> <<>>,
     message_codec |-> None, timeout_ms |-> None, content_encoding |-> None,
     accept_encoding |-> <<>>]

scheme(b, sch) == Ok([b EXCEPT !.scheme = Some(sch)])

authority(b, auth) == Ok([b EXCEPT !.authority = Some(auth)])

path(b, p) ==
    IF Contains(p, "?")
        THEN invalid_request("path may not contain query params ('?')")
        ELSE Ok([b EXCEPT !.path =
                    Some(IF StartsWith(p, "/") THEN p ELSE "/" \o p)])

ascii_metadata(b, key, val) ==
    LET r == append_ascii(b.metadata, key, val)
    IN  IF r.ok THEN Ok([b EXCEPT !.metadata = r.v]) ELSE r

binary_metadata(b, key, val) ==
    LET r == append_binary(b.metadata, key, val)
    IN  IF r.ok THEN Ok([b EXCEPT !.metadata = r.v]) ELSE r

message_codec(b, codec) ==
    LET lowered == MakeAsciiLowercase(codec)
    IN  IF ~is_valid_http_token(lowered)
            THEN invalid_request("invalid message codec")
            ELSE Ok([b EXCEPT !.message_codec = Some(lowered)])

\* timeout_ms letting eleven digits through.
timeout_ms_ElevenDigits(b, n) ==
    LET timeout == U64ToString(n)
    IN  IF Len(timeout) > 11
            THEN invalid_request("timeout too large")
            ELSE Ok([b EXCEPT !.timeout_ms = Some(timeout)])

timeout_ms(b, n) ==
    LET timeout == U64ToString(n)
    IN  IF Len(timeout) > 10
            THEN invalid_request("timeout too large")
            ELSE Ok([b EXCEPT !.timeout_ms = Some(timeout)])

clear_timeout(b) == [b EXCEPT !.timeout_ms = None]

content_encoding(b, encoding) ==
    IF ~is_valid_http_token(encoding)
        THEN invalid_request("invalid content encoding")
        ELSE Ok([b EXCEPT !.content_encoding = Some(encoding)])

accept_encoding(b, encodings) == Ok([b EXCEPT !.accept_encoding = encodings])

\* common_request with the protocol version appended to the caller's metadata
\* instead of inserted.
common_request_Append(b) ==
    LET versioned == HAppend(b.metadata, CONNECT_PROTOCOL_VERSION, PROTOCOL_VERSION_1)
    IN  IF IsSome(b.timeout_ms)
            THEN HInsert(versioned, CONNECT_TIMEOUT_MS, Unwrap(b.timeout_ms))
            ELSE versioned

\* common_request: the headers of the request under construction.
common_request(b) ==
    LET versioned == HInsert(b.metadata, CONNECT_PROTOCOL_VERSION, PROTOCOL_VERSION_1)
    IN  IF IsSome(b.timeout_ms)
            THEN HInsert(versioned, CONNECT_TIMEOUT_MS, Unwrap(b.timeout_ms))
            ELSE versioned

HttpRequest(method, uri, headers) ==
    [method |-> method, uri |-> uri, headers |-> headers]

unary(b) ==
    LET uri == build_uri(b.scheme, b.authority, b.path)
        h0 == common_request(b)
        h1 == IF IsSome(b.message_codec)
                  THEN HInsert(h0, CONTENT_TYPE,
                               CONTENT_TYPE_PREFIX \o Unwrap(b.message_codec))
                  ELSE h0
        h2 == IF IsSome(b.content_encoding)
                  THEN HInsert(h1, CONTENT_ENCODING, Unwrap(b.content_encoding))
                  ELSE h1
        h3 == HAppendAll(h2, ACCEPT_ENCODING, b.accept_encoding)
    IN  IF ~uri.ok THEN uri
        ELSE Ok([kind |-> "Unary", http |-> HttpRequest("POST", uri.v, h3)])

streaming(b) ==
    LET uri == build_uri(b.scheme, b.authority, b.path)
        h0 == common_request(b)
        h1 == IF IsSome(b.message_codec)
                  THEN HInsert(h0, CONTENT_TYPE,
                               CONTENT_TYPE_PREFIX \o Unwrap(b.message_codec))
                  ELSE h0
        h2 == IF IsSome(b.content_encoding)
                  THEN HInsert(h1, CONNECT_CONTENT_ENCODING,
                               Unwrap(b.content_encoding))
                  ELSE h1
        h3 == HAppendAll(h2, CONNECT_ACCEPT_ENCODING, b.accept_encoding)
    IN  IF ~uri.ok THEN uri
        ELSE Ok([kind |-> "Streaming", http |-> HttpRequest("POST", uri.v, h3)])

unary_get(b, msg) ==
    LET q0 == append_pair("?", "message", Base64Encode(URL_SAFE_ALPHABET, msg))
        q1 == append_pair(q0, "base64", "1")
        q2 == append_pair(q1, "connect", "v1")
        q3 == append_pair(q2, "encoding", Unwrap(b.message_codec))
        query == IF IsSome(b.content_encoding)
                     THEN append_pair(q3, "compression", Unwrap(b.content_encoding))
                     ELSE q3
        uri == build_uri(b.scheme, b.authority,
                         Some(Unwrap(b.path) \o "?" \o query))
        headers == HAppendAll(common_request(b), ACCEPT_ENCODING, b.accept_encoding)
    IN  IF ~IsSome(b.path) THEN invalid_request("path required")
        ELSE IF ~IsSome(b.message_codec)
            THEN invalid_request("message codec required")
        ELSE IF ~uri.ok THEN uri
        ELSE Ok([kind |-> "UnaryGet", http |-> HttpRequest("GET", uri.v, headers)])

(***************************************************************************)
(* response/builder.rs: ResponseBuilder.                                   *)
(***************************************************************************)
DefaultStatus == 200

DefaultResponseBuilder ==
    [status |-> DefaultStatus, metadata |-> <<>>, message_codec |-> None,
     content_encoding |-> None]

status(b, code) == [b EXCEPT !.status = code]

HttpResponse(code, headers) == [status |-> code, headers |-> headers]

response_unary(b) ==
    LET h0 == b.metadata
        h1 == IF IsSome(b.message_codec)
                  THEN HInsert(h0, CONTENT_TYPE,
                               CONTENT_TYPE_PREFIX \o Unwrap(b.message_codec))
                  ELSE h0
        h2 == IF IsSome(b.content_encoding)
                  THEN HInsert(h1, CONTENT_ENCODING, Unwrap(b.content_encoding))
                  ELSE h1
    IN  Ok([kind |-> "Unary", http |-> HttpResponse(b.status, h2)])

response_streaming(b) ==
    LET h0 == b.metadata
        h1 == IF IsSome(b.message_codec)
                  THEN HInsert(h0, CONTENT_TYPE,
                               CONTENT_TYPE_PREFIX \o Unwrap(b.message_codec))
                  ELSE h0
        h2 == IF IsSome(b.content_encoding)
                  THEN HInsert(h1, CONNECT_CONTENT_ENCODING,
                               Unwrap(b.content_encoding))
                  ELSE h1
    IN  Ok([kind |-> "Streaming", http |-> HttpResponse(b.status, h2)])

(***************************************************************************)
(* request.rs: ConnectRequestType::from_http.                              *)
(***************************************************************************)
\* from_http with the content-type looked at before the method.
from_http_ContentTypeFirst(http) ==
    LET ct == HGet(http.headers, CONTENT_TYPE)
    IN  IF /\ IsSome(ct)
           /\ StartsWith(IF IsSome(ToStr(Unwrap(ct)))
                             THEN Unwrap(ToStr(Unwrap(ct))) ELSE "",
                         STREAMING_CONTENT_TYPE_PREFIX)
            THEN "Streaming"
        ELSE IF http.method = "GET" THEN "UnaryGet"
        ELSE "Unary"

from_http(http) ==
    IF http.method = "GET" THEN "UnaryGet"
    ELSE LET ct == HGet(http.headers, CONTENT_TYPE)
         IN  IF /\ IsSome(ct)
                /\ StartsWith(IF IsSome(ToStr(Unwrap(ct)))
                                  THEN Unwrap(ToStr(Unwrap(ct))) ELSE "",
                              STREAMING_CONTENT_TYPE_PREFIX)
                 THEN "Streaming"
                 ELSE "Unary"

(***************************************************************************)
(* form_urlencoded::parse, as UnaryGetRequest::from uses it: the query is  *)
(* cut at every ampersand, empty pieces are skipped, a piece is cut at its *)
(* first equals sign, and both halves are decoded.                         *)
(***************************************************************************)
RECURSIVE SplitAt(_, _)
\* The pieces of text between the occurrences of the character sep.
SplitAt(text, sep) ==
    IF Contains(text, sep)
        THEN <<SubSeq(text, 1, IndexOf(text, sep) - 1)>>
             \o SplitAt(SubSeq(text, IndexOf(text, sep) + 1, Len(text)), sep)
        ELSE <<text>>

RECURSIVE FormDecode(_)
\* A plus sign is a blank, a percent escape is its character.  The escapes
\* known are the ones byte_serialize writes; a percent sign before anything
\* else stays.
FormDecode(text) ==
    IF text = "" THEN ""
    ELSE IF CharAt(text, 1) = "+" THEN " " \o FormDecode(SubSeq(text, 2, Len(text)))
    ELSE IF /\ CharAt(text, 1) = "%"
            /\ Len(text) >= 3
            /\ \E i \in 1..Len(FormEscapeCodes) : FormEscapeCodes[i] = SubSeq(text, 1, 3)
        THEN CharAt(FormEscaped,
                    CHOOSE i \in 1..Len(FormEscapeCodes) :
                        FormEscapeCodes[i] = SubSeq(text, 1, 3))
             \o FormDecode(SubSeq(text, 4, Len(text)))
    ELSE CharAt(text, 1) \o FormDecode(SubSeq(text, 2, Len(text)))

RECURSIVE FormPairs(_)
FormPairs(pieces) ==
    IF pieces = <<>> THEN <<>>
    ELSE LET piece == Head(pieces)
         IN  (IF piece = "" THEN <<>>
              ELSE IF Contains(piece, "=")
                  THEN <<[name |-> FormDecode(SubSeq(piece, 1, IndexOf(piece, "=") - 1)),
                          value |-> FormDecode(SubSeq(piece, IndexOf(piece, "=") + 1,
                                                      Len(piece)))]>>
              ELSE <<[name |-> FormDecode(piece), value |-> ""]>>)
             \o FormPairs(Tail(pieces))

form_urlencoded_parse(text) == FormPairs(SplitAt(text, "&"))

\* HashMap::get on the map collected from the pairs: a later pair of a name
\* replaces an earlier one.
QueryGet(pairs, name) ==
    IF \E i \in 1..Len(pairs) : pairs[i].name = name
        THEN Some(pairs[CHOOSE i \in 1..Len(pairs) :
                          /\ pairs[i].name = name
                          /\ \A j \in (i + 1)..Len(pairs) : pairs[j].name # name].value)
        ELSE None

\* UnaryGetRequest::from: the query map of the request.
UnaryGetQuery(http) ==
    LET paq == http.uri.path_and_query
        query == IF IsSome(paq) THEN UriQuery(Unwrap(paq)) ELSE None
    IN  form_urlencoded_parse(IF IsSome(query) THEN Unwrap(query) ELSE "")

(***************************************************************************)
(* common.rs: the codec named by the content-type.                         *)
(***************************************************************************)
content_type(headers) ==
    LET ct == HGet(headers, CONTENT_TYPE)
    IN  IF ~IsSome(ct) THEN invalid_request("missing content-type")
        ELSE IF ~IsSome(ToStr(Unwrap(ct))) THEN invalid_request("invalid content-type")
        ELSE Ok(Unwrap(ToStr(Unwrap(ct))))

\* unary_message_codec taking a streaming subtype for a codec.
unary_message_codec_AnySubtype(headers) ==
    LET ct == content_type(headers)
    IN  IF ~ct.ok THEN ct
        ELSE IF ~StartsWith(ct.v, CONTENT_TYPE_PREFIX)
            THEN invalid_request("content-type must start with 'application/'")
        ELSE Ok(StripPrefix(ct.v, CONTENT_TYPE_PREFIX))

unary_message_codec(headers) ==
    LET ct == content_type(headers)
    IN  IF ~ct.ok THEN ct
        ELSE IF ~StartsWith(ct.v, CONTENT_TYPE_PREFIX)
            THEN invalid_request("content-type must start with 'application/'")
        ELSE IF StartsWith(StripPrefix(ct.v, CONTENT_TYPE_PREFIX),
                           STREAMING_CONTENT_SUBTYPE_PREFIX)
            THEN invalid_request("unary request with streaming content-type")
        ELSE Ok(StripPrefix(ct.v, CONTENT_TYPE_PREFIX))

streaming_message_codec(headers) ==
    LET ct == content_type(headers)
    IN  IF ~ct.ok THEN ct
        ELSE IF ~StartsWith(ct.v, STREAMING_CONTENT_SUBTYPE_PREFIX)
            THEN invalid_request(
                "streaming content-type must start with 'application/connect+'")
        ELSE Ok(StripPrefix(ct.v, STREAMING_CONTENT_SUBTYPE_PREFIX))

(***************************************************************************)
(* request.rs: the accessors of a request of the given variant and         *)
(* validate().                                                             *)
(***************************************************************************)
\* The text of the first value of the header, if it has one that is text.
HeaderText(headers, name) ==
    LET value == HGet(headers, name)
    IN  IF IsSome(value) THEN ToStr(Unwrap(value)) ELSE None

\* http_connect_protocol_version read from the header for every variant.
http_connect_protocol_version_HeaderOnly(kind, http) ==
    HeaderText(http.headers, CONNECT_PROTOCOL_VERSION)

http_connect_protocol_version(kind, http) ==
    IF kind = "UnaryGet"
        THEN LET connect == QueryGet(UnaryGetQuery(http), "connect")
             IN  IF IsSome(connect) /\ StartsWith(Unwrap(connect), "v")
                     THEN Some(StripPrefix(Unwrap(connect), "v"))
                     ELSE None
        ELSE HeaderText(http.headers, CONNECT_PROTOCOL_VERSION)

http_message_codec(kind, http) ==
    IF kind = "Unary" THEN unary_message_codec(http.headers)
    ELSE IF kind = "Streaming" THEN streaming_message_codec(http.headers)
    ELSE LET encoding == QueryGet(UnaryGetQuery(http), "encoding")
         IN  IF IsSome(encoding) THEN Ok(Unwrap(encoding))
             ELSE invalid_request("missing 'encoding' param")

validate_request(kind, http) ==
    LET ver == http_connect_protocol_version(kind, http)
        codec == http_message_codec(kind, http)
    IN  IF IsSome(ver) /\ Unwrap(ver) # PROTOCOL_VERSION_1
            THEN Err("InvalidRequest",
                     "unknown connect-protocol-version " \o Unwrap(ver))
        ELSE IF ~codec.ok THEN codec
        ELSE Ok(<<>>)

http_validate(kind, http) ==
    IF kind = "UnaryGet"
        THEN LET common == validate_request(kind, http)
             IN  IF ~common.ok THEN common
                 ELSE IF ~IsSome(QueryGet(UnaryGetQuery(http), "message"))
                     THEN invalid_request("missing 'message' param")
                 ELSE Ok(<<>>)
        ELSE validate_request(kind, http)

(***************************************************************************)
(* u64 from text (str::parse::<u64>): an optional plus sign and then       *)
(* decimal digits, at least one, of a value up to u64::MAX.                *)
(***************************************************************************)
U64_MAX == <<18446, 74407, 37095, 51615>>

RECURSIVE StripZeros(_)
\* The digits without their leading zeros ("0" for zero).
StripZeros(digits) ==
    IF Len(digits) > 1 /\ CharAt(digits, 1) = "0"
        THEN StripZeros(SubSeq(digits, 2, Len(digits)))
        ELSE digits

RECURSIVE DigitsValue(_)
\* The value of at most five digits.
DigitsValue(digits) ==
    IF digits = "" THEN 0
    ELSE DigitsValue(SubSeq(digits, 1, Len(digits) - 1)) * 10
         + (IndexOf(Digits, CharAt(digits, Len(digits))) - 1)

RECURSIVE DigitsLimbs(_)
\* The limbs of a number written without leading zeros.
DigitsLimbs(digits) ==
    IF Len(digits) <= 5 THEN <<DigitsValue(digits)>>
    ELSE DigitsLimbs(SubSeq(digits, 1, Len(digits) - 5))
         \o <<DigitsValue(SubSeq(digits, Len(digits) - 4, Len(digits)))>>

RECURSIVE LimbsLessEq(_, _)
\* a <= b, for numbers of as many limbs.
LimbsLessEq(a, b) ==
    IF a = <<>> THEN TRUE
    ELSE IF Head(a) # Head(b) THEN Head(a) < Head(b)
    ELSE LimbsLessEq(Tail(a), Tail(b))

\* u64::from_str; None for a parse error.
ParseU64(text) ==
    LET digits == IF text # "" /\ CharAt(text, 1) = "+"
                      THEN SubSeq(text, 2, Len(text))
                      ELSE text
        number == StripZeros(digits)
    IN  IF digits = "" THEN None
        ELSE IF \E i \in 1..Len(digits) : ~Contains(Digits, CharAt(digits, i))
            THEN None
        ELSE IF Len(number) > 20 THEN None
        ELSE IF Len(number) = 20 /\ ~LimbsLessEq(DigitsLimbs(number), U64_MAX)
            THEN None
        ELSE Some(DigitsLimbs(number))

RECURSIVE DivLimbs(_, _, _)
\* Long division of the limbs by d <= 1000, carry being the remainder of the
\* limbs before: the limbs of the quotient and the remainder.
DivLimbs(limbs, d, carry) ==
    IF limbs = <<>> THEN [q |-> <<>>, r |-> carry]
    ELSE LET v == carry * 100000 + Head(limbs)
             rest == DivLimbs(Tail(limbs), d, v % d)
         IN  [q |-> <<v \div d>> \o rest.q, r |-> rest.r]

RECURSIVE TrimLimbs(_)
TrimLimbs(limbs) ==
    IF Len(limbs) > 1 /\ Head(limbs) = 0 THEN TrimLimbs(Tail(limbs)) ELSE limbs

\* Duration::from_millis: whole seconds and the nanoseconds of the rest.
Duration_from_millis(n) ==
    [secs |-> TrimLimbs(DivLimbs(n, 1000, 0).q),
     nanos |-> DivLimbs(n, 1000, 0).r * 1000000]

(***************************************************************************)
(* request.rs: the accessors of a request of the given variant, and        *)
(* response.rs: ValidateOpts::from_request.                                *)
(***************************************************************************)
\* ConnectRequest::timeout
request_timeout(kind, http) ==
    LET text == HeaderText(http.headers, CONNECT_TIMEOUT_MS)
    IN  IF ~IsSome(text) THEN None
        ELSE IF ~IsSome(ParseU64(Unwrap(text))) THEN None
        ELSE Some(Duration_from_millis(Unwrap(ParseU64(Unwrap(text)))))

\* http_content_encoding
request_content_encoding(kind, http) ==
    IF kind = "Unary" THEN HeaderText(http.headers, CONTENT_ENCODING)
    ELSE IF kind = "Streaming" THEN HeaderText(http.headers, CONNECT_CONTENT_ENCODING)
    ELSE QueryGet(UnaryGetQuery(http), "encoding")

\* http_accept_encoding
request_accept_encoding(kind, http) ==
    IF kind = "Streaming"
        THEN FilterMapToStr(HGetAll(http.headers, CONNECT_ACCEPT_ENCODING))
        ELSE FilterMapToStr(HGetAll(http.headers, ACCEPT_ENCODING))

\* from_request leaving the list out when the request advertised nothing.
ValidateOpts_from_request_NoneWhenEmpty(kind, http) ==
    [message_codec |-> IF http_message_codec(kind, http).ok
                           THEN Some(http_message_codec(kind, http).v) ELSE None,
     accept_encoding |-> IF request_accept_encoding(kind, http) = <<>>
                             THEN None
                             ELSE Some(request_accept_encoding(kind, http))]

\* ValidateOpts::from_request
ValidateOpts_from_request(kind, http) ==
    [message_codec |-> IF http_message_codec(kind, http).ok
                           THEN Some(http_message_codec(kind, http).v) ELSE None,
     accept_encoding |-> Some(request_accept_encoding(kind, http))]

(***************************************************************************)
(* A response body.  The bytes are kept as what a JSON reader makes of     *)
(* them: [json |-> FALSE] for bytes that are no JSON document (the empty   *)
(* body among them), or [json |-> TRUE, doc |-> v] with v a JSON value:    *)
(* JNull, JStr(s), JNum(n) or JObj(<<field, ...>>), fields in the order    *)
(* of the text.                                                            *)
(***************************************************************************)
JNull == [t |-> "null"]
JStr(text) == [t |-> "str", s |-> text]
JNum(n) == [t |-> "num", n |-> n]
JField(name, value) == [name |-> name, value |-> value]
JObj(fields) == [t |-> "obj", fields |-> fields]

NotJson(text) == [json |-> FALSE, text |-> text]
Json(doc) == [json |-> TRUE, doc |-> doc]

(***************************************************************************)
(* response/error.rs: ConnectCode and ConnectError.                        *)
(***************************************************************************)
ERROR_CONTENT_TYPE == "application/json"

\* ConnectCode with serde(rename_all = "snake_case"): the tokens of the codes.
ConnectCodeTokens ==
    <<"ok", "canceled", "unknown", "invalid_argument", "deadline_exceeded",
      "not_found", "already_exists", "permission_denied", "resource_exhausted",
      "failed_precondition", "aborted", "out_of_range", "unimplemented",
      "internal", "unavailable", "data_loss", "unauthenticated">>

IsConnectCode(token) == \E i \in 1..Len(ConnectCodeTokens) : ConnectCodeTokens[i] = token

\* The status table with 404 taken for NotFound.
ConnectCode_from_status_NotFound(code) ==
    IF code = 400 THEN "internal"
    ELSE IF code = 401 THEN "unauthenticated"
    ELSE IF code = 403 THEN "permission_denied"
    ELSE IF code = 404 THEN "not_found"
    ELSE IF code = 501 THEN "unimplemented"
    ELSE IF code \in {429, 502, 503, 504} THEN "unavailable"
    ELSE "unknown"

\* From<http::StatusCode> for ConnectCode
ConnectCode_from_status(code) ==
    IF code = 400 THEN "internal"
    ELSE IF code = 401 THEN "unauthenticated"
    ELSE IF code = 403 THEN "permission_denied"
    ELSE IF code = 404 THEN "unimplemented"
    ELSE IF code = 501 THEN "unimplemented"
    ELSE IF code \in {429, 502, 503, 504} THEN "unavailable"
    ELSE "unknown"

\* ConnectError::new
ConnectError_new(code, text) ==
    [code |-> Some(code), message |-> text, details |-> <<>>, headers |-> <<>>]

\* ConnectError::code
ConnectError_code(error) ==
    IF IsSome(error.code) THEN Unwrap(error.code) ELSE "unknown"

\* deserialize_error_code on the value of a "code" field.  [ok |-> TRUE] with
\* the code read: null is no code, and so is a string that names no code,
\* since the failure is replaced by None after the string was read.  A value
\* of another type fails before it is read, the failure is replaced by None
\* all the same, and the reader then stands before that value: [ok |-> FALSE]
\* says the document cannot be read on.
deserialize_error_code(value) ==
    IF value.t = "null" THEN Ok(None)
    ELSE IF value.t = "str"
        THEN Ok(IF IsConnectCode(value.s) THEN Some(value.s) ELSE None)
    ELSE Err("Json", "expected , or }")

RECURSIVE ReadFields(_, _, _)
\* The derived Deserialize of ConnectError over the fields of an object:
\* code and message are read; a second code, message or details, a message
\* that is no string and a details that is no array (no value here is one)
\* are errors; other fields are skipped.
ReadFields(fields, error, seen) ==
    IF fields = <<>> THEN Ok(error)
    ELSE LET f == Head(fields)
         IN  IF f.name \in seen THEN Err("Json", "duplicate field")
             ELSE IF f.name = "code"
                 THEN LET code == deserialize_error_code(f.value)
                      IN  IF ~code.ok THEN code
                          ELSE ReadFields(Tail(fields),
                                          [error EXCEPT !.code = code.v],
                                          seen \cup {"code"})
             ELSE IF f.name = "message"
                 THEN IF f.value.t # "str" THEN Err("Json", "invalid type")
                      ELSE ReadFields(Tail(fields),
                                      [error EXCEPT !.message = f.value.s],
                                      seen \cup {"message"})
             ELSE IF f.name = "details" THEN Err("Json", "invalid type")
             ELSE ReadFields(Tail(fields), error, seen)

\* serde_json::from_slice::<ConnectError>
from_slice(body) ==
    IF ~body.json THEN Err("Json", "expected value")
    ELSE IF body.doc.t # "obj" THEN Err("Json", "invalid type")
    ELSE ReadFields(body.doc.fields,
                    [code |-> None, message |-> "", details |-> <<>>,
                     headers |-> <<>>],
                    {})

\* From<http::Response<T>> for ConnectError
ConnectError_from_response(r) ==
    LET parsed == IF HGet(r.headers, CONTENT_TYPE) = Some(ERROR_CONTENT_TYPE)
                      THEN from_slice(r.body)
                      ELSE Err("Json", "not read")
        error == IF parsed.ok
                     THEN IF IsSome(parsed.v.code) THEN parsed.v
                          ELSE [parsed.v EXCEPT
                                   !.code = Some(ConnectCode_from_status(r.status))]
                     ELSE ConnectError_new(ConnectCode_from_status(r.status),
                                           "request invalid")
    IN  [error EXCEPT !.headers = r.headers]

\* Display of Error, for the two kinds whose text From<Error> keeps.
Error_to_string(err) ==
    IF err.kind = "UnacceptableEncoding"
        THEN "unacceptable encoding \"" \o err.msg \o "\""
    ELSE IF err.kind = "UnexpectedMessageCodec"
        THEN "unexpected message codec \"" \o err.msg \o "\""
    ELSE err.msg

\* From<Error> for ConnectError with every failure made an Unknown one.
ConnectError_from_error_Unknown(err) ==
    ConnectError_new("unknown",
                     IF err.kind \in {"UnacceptableEncoding", "UnexpectedMessageCodec"}
                         THEN Error_to_string(err) ELSE "")

\* From<Error> for ConnectError (an Error::ConnectError does not arise from
\* validate).
ConnectError_from_error(err) ==
    ConnectError_new(
        IF err.kind \in {"InvalidResponse", "UnacceptableEncoding",
                         "UnexpectedMessageCodec"}
            THEN "internal" ELSE "unknown",
        IF err.kind \in {"UnacceptableEncoding", "UnexpectedMessageCodec"}
            THEN Error_to_string(err) ELSE "")

\* StatusCode::is_success
is_success(code) == code >= 200 /\ code < 300

\* ConnectError::from_http, which UnaryResponse::error calls: Some error when
\* the status is no success, or the body is JSON-typed and reads as a
\* ConnectError; None otherwise.
ConnectError_from_http(r) ==
    IF \/ ~is_success(r.status)
       \/ /\ HGet(r.headers, CONTENT_TYPE) = Some(ERROR_CONTENT_TYPE)
          /\ from_slice(r.body).ok
        THEN Some(ConnectError_from_response(r))
        ELSE None

(***************************************************************************)
(* response.rs: the accessors of a response of the given variant,          *)
(* validate(opts) and UnaryResponse::error(opts).                          *)
(***************************************************************************)
CONTENT_ENCODING_IDENTITY == "identity"

response_message_codec(kind, r) ==
    IF kind = "Unary" THEN unary_message_codec(r.headers)
    ELSE streaming_message_codec(r.headers)

response_content_encoding(kind, r) ==
    IF kind = "Unary" THEN HeaderText(r.headers, CONTENT_ENCODING)
    ELSE HeaderText(r.headers, CONNECT_CONTENT_ENCODING)

\* validate with the encoding checked before the codec.
response_validate_EncodingFirst(kind, r, o) ==
    LET codec == response_message_codec(kind, r)
        encoding == response_content_encoding(kind, r)
    IN  IF ~codec.ok THEN codec
        ELSE IF /\ IsSome(encoding)
                /\ Unwrap(encoding) # CONTENT_ENCODING_IDENTITY
                /\ IsSome(o.accept_encoding)
                /\ ~\E i \in 1..Len(Unwrap(o.accept_encoding)) :
                       Unwrap(o.accept_encoding)[i] = Unwrap(encoding)
            THEN Err("UnacceptableEncoding", Unwrap(encoding))
        ELSE IF IsSome(o.message_codec) /\ codec.v # Unwrap(o.message_codec)
            THEN Err("UnexpectedMessageCodec", codec.v)
        ELSE Ok(<<>>)

\* ConnectResponse::validate
response_validate(kind, r, o) ==
    LET codec == response_message_codec(kind, r)
        encoding == response_content_encoding(kind, r)
    IN  IF ~codec.ok THEN codec
        ELSE IF IsSome(o.message_codec) /\ codec.v # Unwrap(o.message_codec)
            THEN Err("UnexpectedMessageCodec", codec.v)
        ELSE IF /\ IsSome(encoding)
                /\ Unwrap(encoding) # CONTENT_ENCODING_IDENTITY
                /\ IsSome(o.accept_encoding)
                /\ ~\E i \in 1..Len(Unwrap(o.accept_encoding)) :
                       Unwrap(o.accept_encoding)[i] = Unwrap(encoding)
            THEN Err("UnacceptableEncoding", Unwrap(encoding))
        ELSE Ok(<<>>)

\* UnaryResponse::error
UnaryResponse_error(r, o) ==
    LET error == ConnectError_from_http(r)
        valid == response_validate("Unary", r, o)
    IN  IF IsSome(error) THEN error
        ELSE IF ~valid.ok THEN Some(ConnectError_from_error(valid.error))
        ELSE None

(***************************************************************************)
(* The caller of the builders: any sequence of setter calls on a fresh     *)
(* builder, ended by a build method or by the first setter error.          *)
(***************************************************************************)
\* Entries of metadata a builder is given at most.
MaxMeta == 2

SchemeInputs == {"https"}
AuthorityInputs == {"example.com"}
PathInputs == {"pkg.Svc/Method", "/p?x"}
AsciiKeyInputs == {"Connect-Timeout-Ms", "connect-protocol-version", "k-bin"}
AsciiValueInputs == {"7", "a\tb"}
BinaryKeyInputs == {"k-bin", "k"}
BinaryValueInputs == {<<0, 1>>}
CodecInputs == {"Proto", "connect+proto", "a b"}
TimeoutInputs == {<<0>>, <<1500>>, <<99999, 99999>>, <<1, 0, 0>>, U64_MAX}
EncodingInputs == {"gzip", "g zip"}
AcceptInputs == {<<"gzip", "br">>}
MessageInputs == {<<0, 1>>, <<251, 255, 0, 2>>}
StatusInputs == {200, 404}

IdleCodec ==
    /\ buf = <<>>
    /\ failed = FALSE
    /\ out = <<>>
    /\ fed = <<>>
    /\ srcErr = FALSE
    /\ lateFrame = FALSE
    /\ emitted = 0
    /\ ended = FALSE
    /\ hung = FALSE
    /\ ptrWidth = 64

IdleBuild ==
    /\ side = "request"
    /\ stage = "building"
    /\ builder = DefaultRequestBuilder
    /\ rbuilder = DefaultResponseBuilder
    /\ message = <<>>
    /\ req = None
    /\ resp = None
    /\ timeoutArg = None

IdleDispatch ==
    /\ http_req = None
    /\ classified = None
    /\ validated = None
    /\ accessed = None

IdleRespond ==
    /\ http_resp = None
    /\ resp_kind = "Unary"
    /\ opts = [message_codec |-> None, accept_encoding |-> None]
    /\ outcome = None

IdleMeta ==
    /\ meta = <<>>
    /\ call = [write |-> None, read |-> None]

\* The driver before main has read anything: an empty JoinSet.
StartedDriver ==
    [pc |-> "read", read |-> 0, running |-> 0, finished |-> 0, panicked |-> 0,
     joined |-> 0, failures |-> 0, aborted |-> 0, stdout |-> 0, last |-> "none"]

IdleDriver == driver = StartedDriver

InitBuild ==
    /\ side \in {"request", "response"}
    /\ stage = "building"
    /\ builder = DefaultRequestBuilder
    /\ rbuilder = DefaultResponseBuilder
    /\ message = <<>>
    /\ req = None
    /\ resp = None
    /\ timeoutArg = None

\* A RequestBuilder setter returned r.
ReqSet(r) ==
    /\ IF r.ok
          THEN builder' = r.v /\ UNCHANGED <<stage, req>>
          ELSE stage' = "error" /\ req' = Some(r) /\ UNCHANGED builder
    /\ UNCHANGED <<side, rbuilder, message, resp>>
    /\ UNCHANGED notBuild

\* A RequestBuilder build method returned r.
ReqBuilt(r) ==
    /\ stage' = "built"
    /\ req' = Some(r)
    /\ UNCHANGED <<side, builder, rbuilder, resp>>
    /\ UNCHANGED notBuild

ReqBuilding == side = "request" /\ stage = "building"

ReqScheme ==
    /\ ReqBuilding
    /\ \E x \in SchemeInputs : ReqSet(scheme(builder, x))
    /\ UNCHANGED timeoutArg

ReqAuthority ==
    /\ ReqBuilding
    /\ \E x \in AuthorityInputs : ReqSet(authority(builder, x))
    /\ UNCHANGED timeoutArg

ReqPath ==
    /\ ReqBuilding
    /\ \E x \in PathInputs : ReqSet(path(builder, x))
    /\ UNCHANGED timeoutArg

ReqAsciiMetadata ==
    /\ ReqBuilding
    /\ Len(builder.metadata) < MaxMeta
    /\ \E k \in AsciiKeyInputs, v \in AsciiValueInputs :
          ReqSet(ascii_metadata(builder, k, v))
    /\ UNCHANGED timeoutArg

ReqBinaryMetadata ==
    /\ ReqBuilding
    /\ Len(builder.metadata) < MaxMeta
    /\ \E k \in BinaryKeyInputs, v \in BinaryValueInputs :
          ReqSet(binary_metadata(builder, k, v))
    /\ UNCHANGED timeoutArg

ReqMessageCodec ==
    /\ ReqBuilding
    /\ \E x \in CodecInputs : ReqSet(message_codec(builder, x))
    /\ UNCHANGED timeoutArg

ReqTimeoutMs ==
    /\ ReqBuilding
    /\ \E n \in TimeoutInputs :
          /\ ReqSet(timeout_ms(builder, n))
          /\ timeoutArg' = IF timeout_ms(builder, n).ok THEN Some(n) ELSE timeoutArg

ReqClearTimeout ==
    /\ ReqBuilding
    /\ ReqSet(Ok(clear_timeout(builder)))
    /\ timeoutArg' = None

ReqContentEncoding ==
    /\ ReqBuilding
    /\ \E x \in EncodingInputs : ReqSet(content_encoding(builder, x))
    /\ UNCHANGED timeoutArg

ReqAcceptEncoding ==
    /\ ReqBuilding
    /\ \E x \in AcceptInputs : ReqSet(accept_encoding(builder, x))
    /\ UNCHANGED timeoutArg

ReqUnary ==
    /\ ReqBuilding
    /\ ReqBuilt(unary(builder))
    /\ UNCHANGED <<message, timeoutArg>>

ReqStreaming ==
    /\ ReqBuilding
    /\ ReqBuilt(streaming(builder))
    /\ UNCHANGED <<message, timeoutArg>>

ReqUnaryGet ==
    /\ ReqBuilding
    /\ \E m \in MessageInputs :
          /\ ReqBuilt(unary_get(builder, m))
          /\ message' = m
    /\ UNCHANGED timeoutArg

\* A ResponseBuilder setter returned r.
RespSet(r) ==
    /\ IF r.ok
          THEN rbuilder' = r.v /\ UNCHANGED <<stage, resp>>
          ELSE stage' = "error" /\ resp' = Some(r) /\ UNCHANGED rbuilder
    /\ UNCHANGED <<side, builder, message, req, timeoutArg>>
    /\ UNCHANGED notBuild

\* A ResponseBuilder build method returned r.
RespBuilt(r) ==
    /\ stage' = "built"
    /\ resp' = Some(r)
    /\ UNCHANGED <<side, builder, rbuilder, message, req, timeoutArg>>
    /\ UNCHANGED notBuild

RespBuilding == side = "response" /\ stage = "building"

RespStatus == RespBuilding /\ \E x \in StatusInputs : RespSet(Ok(status(rbuilder, x)))

RespAsciiMetadata ==
    /\ RespBuilding
    /\ Len(rbuilder.metadata) < MaxMeta
    /\ \E k \in AsciiKeyInputs, v \in AsciiValueInputs :
          RespSet(ascii_metadata(rbuilder, k, v))

RespBinaryMetadata ==
    /\ RespBuilding
    /\ Len(rbuilder.metadata) < MaxMeta
    /\ \E k \in BinaryKeyInputs, v \in BinaryValueInputs :
          RespSet(binary_metadata(rbuilder, k, v))

RespMessageCodec ==
    RespBuilding /\ \E x \in CodecInputs : RespSet(message_codec(rbuilder, x))

RespContentEncoding ==
    RespBuilding /\ \E x \in EncodingInputs : RespSet(content_encoding(rbuilder, x))

RespUnary == RespBuilding /\ RespBuilt(response_unary(rbuilder))

RespStreaming == RespBuilding /\ RespBuilt(response_streaming(rbuilder))

NextBuild ==
    \/ ReqScheme \/ ReqAuthority \/ ReqPath
    \/ ReqAsciiMetadata \/ ReqBinaryMetadata
    \/ ReqMessageCodec \/ ReqTimeoutMs \/ ReqClearTimeout
    \/ ReqContentEncoding \/ ReqAcceptEncoding
    \/ ReqUnary \/ ReqStreaming \/ ReqUnaryGet
    \/ RespStatus \/ RespAsciiMetadata \/ RespBinaryMetadata
    \/ RespMessageCodec \/ RespContentEncoding
    \/ RespUnary \/ RespStreaming

(***************************************************************************)
(* An inbound http::Request is handed to from_http.                        *)
(***************************************************************************)
\* Headers an inbound request carries at most.
MaxHeaders == 2

MethodInputs == {"GET", "POST", "PUT"}

InboundEntries ==
    {Entry(CONTENT_TYPE, v) :
        v \in {"application/connect+proto", "application/proto",
               "application/connect", "Application/Connect+proto",
               "application/connect+é"}}
    \cup {Entry("x-other", "1")}
    \cup {Entry(CONNECT_PROTOCOL_VERSION, v) : v \in {"1", "2", "é"}}

\* The targets an inbound request names: a path, with or without a query.
InboundTargets ==
    {"/pkg.Svc/Method"}
    \cup {"/pkg.Svc/Method?" \o q :
            q \in {"message=AAE&base64=1&connect=v1&encoding=proto",
                   "?&message=AAE&base64=1&connect=v1&encoding=proto",
                   "message=AAE&connect=v2&encoding=proto",
                   "message=AAE&connect=1&encoding=proto",
                   "connect=v1&encoding=proto",
                   "message=AAE&connect=v1",
                   "message=AAE&connect=v2&connect=v1&encoding=a%2Bb"}}

RECURSIVE HFromSeq(_)
\* The header map that holds the entries of es, appended in order.
HFromSeq(es) ==
    IF es = <<>> THEN <<>>
    ELSE LET e == es[Len(es)]
         IN  HAppend(HFromSeq(SubSeq(es, 1, Len(es) - 1)), e.name, e.value)

InboundRequests ==
    {HttpRequest(m, [scheme |-> None, authority |-> None,
                     path_and_query |-> Some(t)], HFromSeq(es)) :
        m \in MethodInputs,
        t \in InboundTargets,
        es \in UNION {SeqsOfLen(InboundEntries, n) : n \in 0..MaxHeaders}}

InitDispatch ==
    /\ http_req \in {Some(r) : r \in InboundRequests}
    /\ classified = None
    /\ validated = None
    /\ accessed = None

FromHttp ==
    /\ IsSome(http_req)
    /\ classified = None
    /\ classified' = Some(from_http(Unwrap(http_req)))
    /\ UNCHANGED <<http_req, validated, accessed>>
    /\ UNCHANGED notDispatch

\* ConnectRequest::validate on the request from_http made.
Validate ==
    /\ IsSome(classified)
    /\ validated = None
    /\ validated' = Some(http_validate(Unwrap(classified), Unwrap(http_req)))
    /\ UNCHANGED <<http_req, classified, accessed>>
    /\ UNCHANGED notDispatch

NextDispatch == FromHttp \/ Validate

(***************************************************************************)
(* A request the builder returned is read through its accessors, or is     *)
(* converted into the http::Request it wraps and handed to from_http, and  *)
(* the request from_http made of it is validated and read.                 *)
(***************************************************************************)
\* What the accessors of a request of the variant return.
Accessors(kind, http) ==
    [kind |-> kind,
     validate |-> http_validate(kind, http),
     message_codec |-> http_message_codec(kind, http),
     content_encoding |-> request_content_encoding(kind, http),
     accept_encoding |-> request_accept_encoding(kind, http),
     timeout |-> request_timeout(kind, http),
     opts |-> ValidateOpts_from_request(kind, http)]

\* The builder returned a request.
ReqReturned ==
    /\ side = "request"
    /\ stage = "built"
    /\ IsSome(req)
    /\ Unwrap(req).ok

\* The accessors of the request the builder returned.
ReqAccess ==
    /\ ReqReturned
    /\ http_req = None
    /\ accessed = None
    /\ accessed' = Some(Accessors(Unwrap(req).v.kind, Unwrap(req).v.http))
    /\ UNCHANGED <<http_req, classified, validated>>
    /\ UNCHANGED notDispatch

\* From<UnaryRequest<T>> (StreamingRequest<T>, UnaryGetRequest) for
\* http::Request<T>, the request then being sent.
IntoHttp ==
    /\ ReqReturned
    /\ http_req = None
    /\ accessed = None
    /\ http_req' = Some(Unwrap(req).v.http)
    /\ UNCHANGED <<classified, validated, accessed>>
    /\ UNCHANGED notDispatch

\* The accessors of the request from_http made.
Access ==
    /\ IsSome(classified)
    /\ accessed = None
    /\ accessed' = Some(Accessors(Unwrap(classified), Unwrap(http_req)))
    /\ UNCHANGED <<http_req, classified, validated>>
    /\ UNCHANGED notDispatch

NextTrip ==
    \/ ReqScheme \/ ReqAuthority \/ ReqPath
    \/ ReqAsciiMetadata \/ ReqBinaryMetadata
    \/ ReqMessageCodec \/ ReqTimeoutMs \/ ReqClearTimeout
    \/ ReqContentEncoding \/ ReqAcceptEncoding
    \/ ReqUnary \/ ReqStreaming \/ ReqUnaryGet
    \/ ReqAccess \/ IntoHttp \/ FromHttp \/ Validate \/ Access

(***************************************************************************)
(* An http::Response arrives and is wrapped as a UnaryResponse or a        *)
(* StreamingResponse; the caller validates it, asks a UnaryResponse for    *)
(* its error, or turns the response into a ConnectError.  The three calls  *)
(* borrow the response and leave it as it was, so a behaviour makes one    *)
(* call and records what it returned.                                      *)
(***************************************************************************)
InboundResponse(code, headers, body) ==
    [status |-> code, headers |-> headers, body |-> body]

ResponseStatusInputs == {200, 204, 302, 400, 401, 403, 404, 429, 500, 501, 502, 503, 504}

BodyInputs ==
    {NotJson(""), NotJson("oops"),
     Json(JStr("not_found")),
     Json(JObj(<<>>)),
     Json(JObj(<<JField("code", JStr("not_found")), JField("message", JStr("gone"))>>)),
     Json(JObj(<<JField("code", JStr("bogus")), JField("message", JStr("m"))>>)),
     Json(JObj(<<JField("code", JNum(5)), JField("message", JStr("m"))>>)),
     Json(JObj(<<JField("message", JStr("m"))>>)),
     Json(JObj(<<JField("code", JNull)>>)),
     Json(JObj(<<JField("code", JStr("unavailable")), JField("extra", JNum(1))>>)),
     Json(JObj(<<JField("message", JNum(5))>>)),
     Json(JObj(<<JField("code", JStr("not_found")), JField("details", JNum(5))>>))}

\* A header that is absent (<<>>) or has the one value (<<v>>).
OptionalEntry(name, value) ==
    IF value = <<>> THEN <<>> ELSE <<Entry(name, value[1])>>

ResponseHeaders(ct, ce, cce, diag) ==
    HFromSeq(OptionalEntry(CONTENT_TYPE, ct) \o OptionalEntry(CONTENT_ENCODING, ce)
             \o OptionalEntry(CONNECT_CONTENT_ENCODING, cce)
             \o OptionalEntry("x-diag", diag))

\* Every status and body, with and without the JSON content-type.
StatusSweep ==
    {InboundResponse(st, ResponseHeaders(ct, <<>>, <<>>, <<>>), b) :
        st \in ResponseStatusInputs,
        ct \in {<<>>, <<"application/json">>},
        b \in BodyInputs}

\* Every combination of headers, on a success and on a failure status.
HeaderSweep ==
    {InboundResponse(st, ResponseHeaders(ct, ce, cce, diag), b) :
        st \in {200, 404},
        ct \in {<<>>, <<"application/json">>, <<"application/proto">>,
                <<"application/json; charset=utf-8">>, <<"connect+proto">>,
                <<"application/connect+proto">>},
        ce \in {<<>>, <<"identity">>, <<"gzip">>, <<"é">>},
        cce \in {<<>>, <<"gzip">>},
        diag \in {<<>>, <<"1">>},
        b \in {NotJson(""),
               Json(JObj(<<JField("code", JStr("not_found")),
                           JField("message", JStr("gone"))>>)),
               Json(JObj(<<JField("code", JNum(5)), JField("message", JStr("m"))>>))}}

OptsInputs ==
    {[message_codec |-> c, accept_encoding |-> a] :
        c \in {None, Some("proto"), Some("json")},
        a \in {None, Some(<<>>), Some(<<"br", "gzip">>)}}

InitRespond ==
    /\ http_resp \in {Some(r) : r \in StatusSweep \cup HeaderSweep}
    /\ resp_kind \in {"Unary", "Streaming"}
    /\ opts = [message_codec |-> None, accept_encoding |-> None]
    /\ outcome = None

\* ConnectResponse::validate(opts)
RespondValidate ==
    /\ IsSome(http_resp)
    /\ outcome = None
    /\ \E o \in OptsInputs :
          /\ opts' = o
          /\ outcome' = Some([op |-> "validate",
                              result |-> response_validate(resp_kind,
                                                           Unwrap(http_resp), o)])
    /\ UNCHANGED <<http_resp, resp_kind>>
    /\ UNCHANGED notRespond

\* UnaryResponse::error(opts)
RespondError ==
    /\ IsSome(http_resp)
    /\ outcome = None
    /\ resp_kind = "Unary"
    /\ \E o \in OptsInputs :
          /\ opts' = o
          /\ outcome' = Some([op |-> "error",
                              result |-> UnaryResponse_error(Unwrap(http_resp), o)])
    /\ UNCHANGED <<http_resp, resp_kind>>
    /\ UNCHANGED notRespond

\* ConnectError::from(response)
RespondIntoError ==
    /\ IsSome(http_resp)
    /\ outcome = None
    /\ outcome' = Some([op |-> "into_error",
                        result |-> ConnectError_from_response(Unwrap(http_resp))])
    /\ UNCHANGED <<http_resp, resp_kind, opts>>
    /\ UNCHANGED notRespond

NextRespond == RespondValidate \/ RespondError \/ RespondIntoError

(***************************************************************************)
(* A client has built and sent a request; it derives the ValidateOpts of   *)
(* the request with ValidateOpts::from_request and validates the response  *)
(* that arrives against them.                                              *)
(***************************************************************************)
\* The builder after path, message_codec and accept_encoding (when a list
\* is given) were called on a fresh one.
SentBuilder(codec, accept) ==
    LET b1 == path(DefaultRequestBuilder, "pkg.Svc/Method").v
        b2 == message_codec(b1, codec).v
    IN  IF accept = <<>> THEN b2 ELSE accept_encoding(b2, Unwrap(accept)).v

SentCodecInputs == {"proto", "json"}
SentAcceptInputs == {None, Some(<<>>), Some(<<"br">>), Some(<<"gzip", "br">>)}

\* The builders and, for each, the requests its build methods return.
SentBuilders ==
    {SentBuilder(c, a) : c \in SentCodecInputs, a \in SentAcceptInputs}
SentRequests(b) == {unary(b), streaming(b), unary_get(b, <<0, 1>>)}

\* The responses that arrive: success status, every content encoding.
ArrivingResponses ==
    {InboundResponse(200, ResponseHeaders(ct, ce, cce, <<>>), NotJson("")) :
        ct \in {<<"application/proto">>, <<"application/json">>,
                <<"application/connect+proto">>},
        ce \in {<<>>, <<"identity">>, <<"gzip">>, <<"br">>, <<"é">>},
        cce \in {<<>>, <<"identity">>, <<"gzip">>}}

InitNegotiate ==
    /\ side = "request"
    /\ stage = "built"
    /\ builder \in SentBuilders
    /\ req \in {Some(r) : r \in SentRequests(builder)}
    /\ rbuilder = DefaultResponseBuilder
    /\ message = <<>>
    /\ resp = None
    /\ timeoutArg = None
    /\ http_resp \in {Some(r) : r \in ArrivingResponses}
    /\ resp_kind \in {"Unary", "Streaming"}
    /\ opts = [message_codec |-> None, accept_encoding |-> None]
    /\ outcome = None

\* ValidateOpts::from_request(&req)
FromRequest ==
    /\ ReqReturned
    /\ accessed = None
    /\ accessed' = Some(Accessors(Unwrap(req).v.kind, Unwrap(req).v.http))
    /\ opts' = ValidateOpts_from_request(Unwrap(req).v.kind, Unwrap(req).v.http)
    /\ UNCHANGED <<http_req, classified, validated>>
    /\ UNCHANGED <<http_resp, resp_kind, outcome>>
    /\ UNCHANGED <<codecVars, buildVars, metaVars, driverVars>>

\* ConnectResponse::validate(&opts) with the options of the request.
ValidateAgainstRequest ==
    /\ IsSome(accessed)
    /\ IsSome(http_resp)
    /\ outcome = None
    /\ outcome' = Some([op |-> "validate",
                        result |-> response_validate(resp_kind,
                                                     Unwrap(http_resp), opts)])
    /\ UNCHANGED <<http_resp, resp_kind, opts>>
    /\ UNCHANGED notRespond

\* UnaryResponse::error(&opts) with the options of the request.
ErrorAgainstRequest ==
    /\ IsSome(accessed)
    /\ IsSome(http_resp)
    /\ outcome = None
    /\ resp_kind = "Unary"
    /\ outcome' = Some([op |-> "error",
                        result |-> UnaryResponse_error(Unwrap(http_resp), opts)])
    /\ UNCHANGED <<http_resp, resp_kind, opts>>
    /\ UNCHANGED notRespond

NextNegotiate == FromRequest \/ ValidateAgainstRequest \/ ErrorAgainstRequest

(***************************************************************************)
(* conformance/src/main.rs: the driver.  main reads requests from stdin,   *)
(* spawns one task on a JoinSet for each and joins tasks while the set     *)
(* holds more than Parallelism of them; at the end of stdin it joins them  *)
(* all.  Each task runs handle_client_test, which writes one response to   *)
(* stdout.  The tasks run the same code, so they are counted by where they *)
(* are: running, finished (returned, not yet joined), panicked (not yet    *)
(* joined), joined, aborted (dropped with the JoinSet while running).      *)
(* pc is where main is: "read" (in read_request), "join_next" (in          *)
(* join_next, inside the inner loop), "join_all", "done" (returned Ok) or  *)
(* "failed" (returned the read error, or panicked in join_all).            *)
(***************************************************************************)
\* The bound of the inner loop: while tasks.len() > 16.
Parallelism == 16

\* Requests stdin holds at most.
MaxRequests == 18
\* Writes to stdout that fail at most.
MaxWriteFailures == 1

\* The results run_client_test ends with: Ok(response) or Err.
TestResults == {"Response", "Error"}

\* JoinSet::len: the tasks spawned and not yet joined.
JoinSetLen(d) == d.running + d.finished + d.panicked

\* The inner loop without a bound: main goes on reading.
Throttle_Unbounded(d) == [d EXCEPT !.pc = "read"]

\* The test of the inner loop after a spawn or a join: main waits in
\* join_next when the set holds more than Parallelism tasks and reads the
\* next request otherwise.
Throttle(d) ==
    [d EXCEPT !.pc = IF JoinSetLen(d) > Parallelism THEN "join_next" ELSE "read"]

\* main returns or panics: the JoinSet is dropped and aborts the tasks
\* that still run.
Dropped(d, pc) ==
    [d EXCEPT !.pc = pc, !.aborted = @ + d.running, !.running = 0]

\* read_request returned Some(req): tasks.spawn(handle_client_test(req)).
main_spawn(d) == Throttle([d EXCEPT !.read = @ + 1, !.running = @ + 1])

\* tasks.join_next().await returned a task of the kind ("finished" or
\* "panicked"); what it returned is ignored.
main_join_next(d, kind) ==
    Throttle([d EXCEPT ![kind] = @ - 1, !.joined = @ + 1])

\* tasks.join_all().await takes a task of the kind: it panics on a
\* panicked one.
main_join_all(d, kind) ==
    IF kind = "panicked"
        THEN Dropped([d EXCEPT !.panicked = @ - 1, !.joined = @ + 1], "failed")
        ELSE [d EXCEPT !.finished = @ - 1, !.joined = @ + 1]

\* handle_client_test writing no response for a test that failed.
handle_client_test_SilentOnError(d, result, wrote) ==
    IF result = "Error"
        THEN [d EXCEPT !.running = @ - 1, !.finished = @ + 1]
    ELSE IF wrote
        THEN [d EXCEPT !.running = @ - 1, !.finished = @ + 1,
                       !.stdout = @ + 1, !.last = result]
        ELSE [d EXCEPT !.running = @ - 1, !.panicked = @ + 1,
                       !.failures = @ + 1]

\* handle_client_test: the result of run_client_test, Response or Error,
\* is written to stdout with write_response; the task panics when the
\* write fails (wrote = FALSE).
handle_client_test(d, result, wrote) ==
    IF wrote
        THEN [d EXCEPT !.running = @ - 1, !.finished = @ + 1,
                       !.stdout = @ + 1, !.last = result]
        ELSE [d EXCEPT !.running = @ - 1, !.panicked = @ + 1,
                       !.failures = @ + 1]

\* main has returned or panicked.
Exited == driver.pc \in {"done", "failed"}

\* read_request().await? returns Some(req) and main spawns its task.
ReadRequest ==
    /\ driver.pc = "read"
    /\ driver.read < MaxRequests
    /\ driver' = main_spawn(driver)
    /\ UNCHANGED notDriver

\* read_request returns None, the end of stdin: main leaves the loop.
ReadEof ==
    /\ driver.pc = "read"
    /\ driver' = [driver EXCEPT !.pc = "join_all"]
    /\ UNCHANGED notDriver

\* read_request returns an error and main returns it.
ReadError ==
    /\ driver.pc = "read"
    /\ driver' = Dropped(driver, "failed")
    /\ UNCHANGED notDriver

\* A task that has returned or panicked is joined in the inner loop.
JoinNext ==
    /\ driver.pc = "join_next"
    /\ \E kind \in {"finished", "panicked"} :
          /\ driver[kind] > 0
          /\ driver' = main_join_next(driver, kind)
    /\ UNCHANGED notDriver

\* join_all takes a task that has returned or panicked.
JoinAll ==
    /\ driver.pc = "join_all"
    /\ \E kind \in {"finished", "panicked"} :
          /\ driver[kind] > 0
          /\ driver' = main_join_all(driver, kind)
    /\ UNCHANGED notDriver

\* join_all finds the set empty and main returns Ok(()).
MainReturn ==
    /\ driver.pc = "join_all"
    /\ JoinSetLen(driver) = 0
    /\ driver' = [driver EXCEPT !.pc = "done"]
    /\ UNCHANGED notDriver

\* A running task ends: handle_client_test returns or panics.
TaskEnd ==
    /\ ~Exited
    /\ driver.running > 0
    /\ \E result \in TestResults, wrote \in BOOLEAN :
          /\ wrote \/ driver.failures < MaxWriteFailures
          /\ driver' = handle_client_test(driver, result, wrote)
    /\ UNCHANGED notDriver

MainStep ==
    ReadRequest \/ ReadEof \/ ReadError \/ JoinNext \/ JoinAll \/ MainReturn

NextDriver ==
    \/ ReadRequest \/ ReadEof \/ ReadError
    \/ JoinNext \/ JoinAll \/ MainReturn
    \/ TaskEnd

(***************************************************************************)
(* Metadata on a HeaderMap.  The map is one received from a peer, so it    *)
(* may hold values that are no text or no base64; the caller makes at most *)
(* one write and then one read of the written key, or reads a key of the   *)
(* received map.  call records the write (with the map before it) and the  *)
(* read.                                                                   *)
(***************************************************************************)
\* Entries of a received map at most.
MaxEntries == 2

ReceivedEntries ==
    {Entry("k", "v"), Entry("k", "é"), Entry("trailer-k", "t"),
     Entry("k-bin", "AAE"), Entry("k-bin", "A"),
     Entry("trailer-k-bin", "/w"), Entry("trailer-k-bin", "é")}

ReceivedMaps ==
    {HFromSeq(es) : es \in UNION {SeqsOfLen(ReceivedEntries, n) : n \in 0..MaxEntries}}

KeyInputs == {"k", "k-bin", "K-BIN", "trailer-k", "trailer-k-bin", "a b"}

AsciiInputs == {"v", "a b", "", "é", "a\tb"}

BinaryInputs == {<<>>, <<0>>, <<0, 1>>, <<255, 254, 253>>, <<1, 2, 3, 4>>}

InitMeta ==
    /\ meta \in ReceivedMaps
    /\ call = [write |-> None, read |-> None]

\* Mutant of Metadata_write: a write that fails leaves an empty map.
Metadata_write_ClearOnError(h, result) ==
    [map |-> IF result.ok THEN result.v ELSE <<>>,
     returned |-> IF result.ok THEN Ok(<<>>) ELSE result]

\* A write of the Metadata trait on the map h, result being what the key
\* and value checks and the insert or append made of it: the map left
\* behind and the Result returned.  The checks return their error with ?
\* before insert or append is called.
Metadata_write(h, result) ==
    [map |-> IF result.ok THEN result.v ELSE h,
     returned |-> IF result.ok THEN Ok(<<>>) ELSE result]

\* A write: the map is changed when the write succeeds, and left alone
\* when it fails.
Written(op, key, val, result) ==
    /\ meta' = Metadata_write(meta, result).map
    /\ call' = [call EXCEPT !.write =
                   Some([op |-> op, key |-> key, value |-> val, before |-> meta,
                         result |-> Metadata_write(meta, result).returned])]
    /\ UNCHANGED notMeta

InsertAscii ==
    /\ call.write = None
    /\ call.read = None
    /\ \E key \in KeyInputs, val \in AsciiInputs :
          Written("insert_ascii", key, val, insert_ascii(meta, key, val))

InsertBinary ==
    /\ call.write = None
    /\ call.read = None
    /\ \E key \in KeyInputs, val \in BinaryInputs :
          Written("insert_binary", key, val, insert_binary(meta, key, val))

AppendAscii ==
    /\ call.write = None
    /\ call.read = None
    /\ \E key \in KeyInputs, val \in AsciiInputs :
          Written("append_ascii", key, val, append_ascii(meta, key, val))

AppendBinary ==
    /\ call.write = None
    /\ call.read = None
    /\ \E key \in KeyInputs, val \in BinaryInputs :
          Written("append_binary", key, val, append_binary(meta, key, val))

\* The keys a read is made with.
ReadKeys == IF IsSome(call.write) THEN {Unwrap(call.write).key} ELSE KeyInputs

\* A read: the map is left alone.
ReadAs(op, key, result) ==
    /\ call' = [call EXCEPT !.read = Some([op |-> op, key |-> key, result |-> result])]
    /\ UNCHANGED meta
    /\ UNCHANGED notMeta

GetAscii ==
    /\ call.read = None
    /\ \E key \in ReadKeys : ReadAs("get_ascii", key, get_ascii(meta, key))

GetBinary ==
    /\ call.read = None
    /\ \E key \in ReadKeys : ReadAs("get_binary", key, get_binary(meta, key))

GetAllAscii ==
    /\ call.read = None
    /\ \E key \in ReadKeys : ReadAs("get_all_ascii", key, get_all_ascii(meta, key))

GetAllBinary ==
    /\ call.read = None
    /\ \E key \in ReadKeys : ReadAs("get_all_binary", key, get_all_binary(meta, key))

IterAscii ==
    /\ call.read = None
    /\ ReadAs("iter_ascii", "", iter_ascii(meta))

IterBinary ==
    /\ call.read = None
    /\ ReadAs("iter_binary", "", iter_binary(meta))

NextMeta ==
    \/ InsertAscii \/ InsertBinary \/ AppendAscii \/ AppendBinary
    \/ GetAscii \/ GetBinary \/ GetAllAscii \/ GetAllBinary
    \/ IterAscii \/ IterBinary

(***************************************************************************)
(* Specifications: the frame codec (Spec), the builders (SpecBuild) and    *)
(* the inbound dispatch (SpecDispatch).                                    *)
(***************************************************************************)
Init == InitCodec /\ IdleBuild /\ IdleDispatch /\ IdleRespond /\ IdleMeta /\ IdleDriver

Next == NextCodec

Spec == Init /\ [][Next]_vars

InitB == IdleCodec /\ InitBuild /\ IdleDispatch /\ IdleRespond /\ IdleMeta /\ IdleDriver

SpecBuild == InitB /\ [][NextBuild]_vars

InitD == IdleCodec /\ IdleBuild /\ InitDispatch /\ IdleRespond /\ IdleMeta /\ IdleDriver

SpecDispatch == InitD /\ [][NextDispatch]_vars

InitR == IdleCodec /\ IdleBuild /\ IdleDispatch /\ InitRespond /\ IdleMeta /\ IdleDriver

SpecRespond == InitR /\ [][NextRespond]_vars

InitM == IdleCodec /\ IdleBuild /\ IdleDispatch /\ IdleRespond /\ InitMeta /\ IdleDriver

SpecMeta == InitM /\ [][NextMeta]_vars

InitT ==
    /\ IdleCodec /\ InitBuild /\ IdleDispatch /\ IdleRespond /\ IdleMeta
    /\ IdleDriver
    /\ side = "request"

SpecTrip == InitT /\ [][NextTrip]_vars

InitN == IdleCodec /\ IdleDispatch /\ IdleMeta /\ IdleDriver /\ InitNegotiate

SpecNegotiate == InitN /\ [][NextNegotiate]_vars

InitV ==
    /\ IdleCodec /\ IdleBuild /\ IdleDispatch /\ IdleRespond /\ IdleMeta
    /\ IdleDriver

SpecDriver == InitV /\ [][NextDriver]_vars

\* The runtime runs main whenever it can go on (stdin delivers a request,
\* its end or an error; a join returns once a task has ended), and every
\* test a task runs ends.
SpecDriverFair == SpecDriver /\ WF_vars(MainStep) /\ WF_vars(TaskEnd)

(***************************************************************************)
(* Properties of the frame codec.                                          *)
(***************************************************************************)
IsErr(item) == item.kind = "err"

ErrCount(items) == Cardinality({i \in 1..Len(items) : IsErr(items[i])})

PartialErr == ErrItem("partial frame at end of stream")

TooLargeErr == ErrItem("frame too large")

\* The items the stream yields when bytes arrives as one single chunk
\* and the stream then ends (none at all when that feed call never returns).
OneChunkRun(bytes, w) ==
    LET r == Feed([buf |-> <<>>, failed |-> FALSE],
                  [some |-> "data", data |-> bytes], w)
    IN  IF r.hung THEN <<>>
        ELSE r.items \o Feed([buf |-> r.buf, failed |-> r.failed],
                             [some |-> "none"], w).items

\* The buffer starts with a header whose data_len + 5 does not fit usize.
Oversized ==
    /\ Len(buf) >= 5
    /\ ~FitsUsize(FrameLen64(GetU32(SubSeq(buf, 2, 5))), ptrWidth)

\* C1: chunking invariance.  A run of the stream over a source that reports
\* no error, once it is over (the end of the stream was fed, or a feed call
\* never returns), has yielded exactly the items the same bytes yield when
\* they arrive as one single chunk.
C1_ChunkingInvariance ==
    ((ended \/ hung) /\ ~srcErr) => out = OneChunkRun(fed, ptrWidth)

\* C2: errors are terminal.  At most one error item is ever yielded and no
\* item follows it, whatever arrives after it.
C2_ErrorsTerminal ==
    \A i \in 1..Len(out) : IsErr(out[i]) => i = Len(out)

\* A chunk that would have completed the buffered frame arrived after the
\* source error, and the stream has ended.
C2_Witness ==
    /\ srcErr /\ lateFrame /\ ended
    /\ buf # <<>>
    /\ out = <<ErrItem("source")>>

\* C3: end of stream on a codec that has not failed.  A non-empty buffer
\* yields exactly one "partial frame at end of stream" error, as the last
\* item; an empty buffer yields no error at all.
C3_EndOfStream ==
    (ended /\ ~failed) =>
        IF buf # <<>>
            THEN /\ Len(out) >= 1
                 /\ out[Len(out)] = PartialErr
                 /\ ErrCount(out) = 1
            ELSE ErrCount(out) = 0

\* Only one to four header bytes arrived before the stream ended.
C3_Witness ==
    /\ ended /\ ~failed
    /\ Len(buf) \in 1..4
    /\ out = <<PartialErr>>

\* Where the k-th emitted frame starts in the input (1-based), for the
\* frames yielded in items.
RECURSIVE FramePos(_, _)
FramePos(items, k) ==
    IF k = 1 THEN 1
    ELSE FramePos(items, k - 1) + 5 + Len(items[k - 1].data)

C5_NoCompleteFrameLeft ==
    (~failed /\ ~hung /\ Len(buf) >= 5) =>
        \/ buf[2] > 0
        \/ buf[3] > 0
        \/ buf[4] * 256 + buf[5] + 5 > Len(buf)

\* One chunk held two whole frames and the feed call for it returned both.
C5_Witness ==
    /\ ~failed /\ ~hung /\ ~ended
    /\ emitted = 2
    /\ Len(out) = 2
    /\ buf = <<>>

\* C6: an oversized frame ends the feed call with exactly one "frame too
\* large" error after the frames completed before it, the codec failed.
C6_OversizedFrameFails ==
    Oversized =>
        /\ ~hung
        /\ failed
        /\ Len(out) >= 1
        /\ out[Len(out)] = TooLargeErr
        /\ ErrCount(out) = 1

(***************************************************************************)
(* Properties of the builders.                                             *)
(***************************************************************************)
\* The request a build method of the RequestBuilder returned.
BuiltRequest(kind) ==
    /\ side = "request"
    /\ stage = "built"
    /\ IsSome(req)
    /\ Unwrap(req).ok
    /\ Unwrap(req).v.kind = kind

\* The response a build method of the ResponseBuilder returned.
BuiltResponse(kind) ==
    /\ side = "response"
    /\ stage = "built"
    /\ IsSome(resp)
    /\ Unwrap(resp).ok
    /\ Unwrap(resp).v.kind = kind

ReqHeaders == Unwrap(req).v.http.headers

RespHeaders == Unwrap(resp).v.http.headers

\* C7 (as claimed): a request or response built by streaming() with codec c
\* set has the one content-type "application/connect+c"; the content
\* encoding, when set, is the connect-content-encoding header and the accepted
\* encodings are the connect-accept-encoding headers, and the request or
\* response has no content-encoding and no accept-encoding header.
C7_StreamingHeaders ==
    /\ BuiltRequest("Streaming") =>
          /\ IsSome(builder.message_codec) =>
                HGetAll(ReqHeaders, CONTENT_TYPE)
                    = <<"application/connect+" \o Unwrap(builder.message_codec)>>
          /\ IsSome(builder.content_encoding) =>
                HGetAll(ReqHeaders, CONNECT_CONTENT_ENCODING)
                    = <<Unwrap(builder.content_encoding)>>
          /\ HGetAll(ReqHeaders, CONNECT_ACCEPT_ENCODING) = builder.accept_encoding
          /\ ~HasName(ReqHeaders, CONTENT_ENCODING)
          /\ ~HasName(ReqHeaders, ACCEPT_ENCODING)
    /\ BuiltResponse("Streaming") =>
          /\ IsSome(rbuilder.message_codec) =>
                HGetAll(RespHeaders, CONTENT_TYPE)
                    = <<"application/connect+" \o Unwrap(rbuilder.message_codec)>>
          /\ IsSome(rbuilder.content_encoding) =>
                HGetAll(RespHeaders, CONNECT_CONTENT_ENCODING)
                    = <<Unwrap(rbuilder.content_encoding)>>
          /\ ~HasName(RespHeaders, CONTENT_ENCODING)

\* What C8 says of the protocol version and of the content type: the request
\* built by unary() is a POST with exactly one connect-protocol-version
\* header, of value "1", and the one content-type "application/c" when codec
\* c is set.
UnaryVersionAndContentType ==
    /\ Unwrap(req).v.http.method = "POST"
    /\ HGetAll(ReqHeaders, CONNECT_PROTOCOL_VERSION) = <<"1">>
    /\ IsSome(builder.message_codec) =>
          HGetAll(ReqHeaders, CONTENT_TYPE)
              = <<"application/" \o Unwrap(builder.message_codec)>>

\* C8 (as claimed): the request built by unary() has exactly one
\* connect-protocol-version header, of value "1", the content-type
\* "application/c" for the codec c set, and a connect-timeout-ms header if
\* and only if a timeout was set and not cleared afterwards.
C8_UnaryHeaders_Original ==
    BuiltRequest("Unary") =>
        /\ UnaryVersionAndContentType
        /\ HasName(ReqHeaders, CONNECT_TIMEOUT_MS) <=> IsSome(timeoutArg)

\* C8 (amended): the request built by unary() has exactly one
\* connect-protocol-version header, of value "1", and the content-type
\* "application/c" for the codec c set; when a timeout was set and not
\* cleared afterwards it has exactly one connect-timeout-ms header, the
\* decimal text of that timeout, and otherwise its connect-timeout-ms headers
\* are the ones the caller put into the metadata.
C8_UnaryHeaders ==
    BuiltRequest("Unary") =>
        /\ UnaryVersionAndContentType
        /\ HGetAll(ReqHeaders, CONNECT_TIMEOUT_MS)
              = IF IsSome(timeoutArg)
                    THEN <<U64ToString(Unwrap(timeoutArg))>>
                    ELSE HGetAll(builder.metadata, CONNECT_TIMEOUT_MS)

\* C8 witness: unary() built a request from metadata that named
\* connect-protocol-version twice, with a timeout and a codec set.
C8_Witness ==
    /\ BuiltRequest("Unary")
    /\ HGetAll(builder.metadata, CONNECT_PROTOCOL_VERSION) = <<"7", "7">>
    /\ timeoutArg = Some(<<99999, 99999>>)
    /\ HGetAll(ReqHeaders, CONNECT_TIMEOUT_MS) = <<"9999999999">>
    /\ HGetAll(ReqHeaders, CONTENT_TYPE) = <<"application/proto">>

\* unary_get was the build method called (it alone records the message).
CalledUnaryGet == side = "request" /\ stage = "built" /\ message # <<>>

\* C9 (as claimed): unary_get(m) with a path and codec c set yields a GET
\* request whose query string is
\* "message=<base64url-no-pad(m)>&base64=1&connect=v1&encoding=c", followed by
\* "&compression=e" exactly when content encoding e was set; and unary_get
\* fails with an invalid-request error when no path or no codec was set.
C9_UnaryGetQuery ==
    CalledUnaryGet =>
        IF IsSome(builder.path) /\ IsSome(builder.message_codec)
            THEN Unwrap(req).ok =>
                    /\ Unwrap(req).v.kind = "UnaryGet"
                    /\ Unwrap(req).v.http.method = "GET"
                    /\ UriQuery(Unwrap(Unwrap(req).v.http.uri.path_and_query))
                          = Some("message="
                                 \o Base64Encode(URL_SAFE_ALPHABET, message)
                                 \o "&base64=1&connect=v1&encoding="
                                 \o Unwrap(builder.message_codec)
                                 \o (IF IsSome(builder.content_encoding)
                                         THEN "&compression="
                                              \o Unwrap(builder.content_encoding)
                                         ELSE ""))
            ELSE /\ ~Unwrap(req).ok
                 /\ Unwrap(req).error.kind = "InvalidRequest"

(***************************************************************************)
(* Properties of the inbound dispatch.                                     *)
(***************************************************************************)
\* The content-type of the request is valid text that starts with
\* "application/connect+".
StreamingContentType(r) ==
    LET values == HGetAll(r.headers, CONTENT_TYPE)
    IN  /\ values # <<>>
        /\ IsSome(ToStr(values[1]))
        /\ Len(values[1]) >= 20
        /\ SubSeq(values[1], 1, 20) = "application/connect+"

\* C10: from_http makes every GET request a UnaryGet, whatever its
\* content-type; every other request a Streaming one when its content-type
\* starts with "application/connect+", and a Unary one otherwise, also when
\* it has no content-type or one that is not valid text.
C10_Dispatch ==
    IsSome(classified) =>
        LET r == Unwrap(http_req)
        IN  /\ r.method = "GET" => classified = Some("UnaryGet")
            /\ (r.method # "GET" /\ StreamingContentType(r))
                  => classified = Some("Streaming")
            /\ (r.method # "GET" /\ ~StreamingContentType(r))
                  => classified = Some("Unary")

\* C10 witness: a GET request with a streaming content-type was made a
\* UnaryGet.
C10_Witness ==
    /\ classified = Some("UnaryGet")
    /\ Unwrap(http_req).method = "GET"
    /\ HGetAll(Unwrap(http_req).headers, CONTENT_TYPE)
          = <<"application/connect+proto">>

\* The protocol version C11 names: for a UnaryGet request the text after the
\* "v" of the connect query value, for the others the text of the
\* connect-protocol-version header.
NamedVersion(kind, r) ==
    IF kind = "UnaryGet"
        THEN LET q == QueryGet(UnaryGetQuery(r), "connect")
             IN  IF IsSome(q) /\ Len(Unwrap(q)) >= 1 /\ Head(Unwrap(q)) = "v"
                     THEN Some(Tail(Unwrap(q)))
                     ELSE None
        ELSE LET values == HGetAll(r.headers, CONNECT_PROTOCOL_VERSION)
             IN  IF values # <<>> THEN ToStr(values[1]) ELSE None

\* C11: validate() fails with an invalid-request error when a protocol
\* version is present and is not "1", when the message codec accessor fails,
\* and, for a UnaryGet request, when the query has no message parameter; in
\* every other case it succeeds.  The version of a UnaryGet request is the
\* one of its connect=v{n} query value, not the one of its header.
C11_Validate ==
    IsSome(validated) =>
        LET r == Unwrap(http_req)
            kind == Unwrap(classified)
            ver == NamedVersion(kind, r)
            fails == \/ IsSome(ver) /\ Unwrap(ver) # "1"
                     \/ ~http_message_codec(kind, r).ok
                     \/ /\ kind = "UnaryGet"
                        /\ ~IsSome(QueryGet(UnaryGetQuery(r), "message"))
        IN  IF fails
                THEN /\ ~Unwrap(validated).ok
                     /\ Unwrap(validated).error.kind = "InvalidRequest"
                ELSE Unwrap(validated).ok

\* C11 witness: a GET request whose header names version 2 and whose query
\* names version 1 was validated, and passed.
C11_Witness ==
    /\ classified = Some("UnaryGet")
    /\ IsSome(validated)
    /\ Unwrap(validated).ok
    /\ HGetAll(Unwrap(http_req).headers, CONNECT_PROTOCOL_VERSION) = <<"2">>
    /\ QueryGet(UnaryGetQuery(Unwrap(http_req)), "connect") = Some("v1")

(***************************************************************************)
(* Properties of the responses.                                            *)
(***************************************************************************)
\* The last call on the response was op.
Called(op) == IsSome(outcome) /\ Unwrap(outcome).op = op

Returned == Unwrap(outcome).result

\* C12: on a response whose codec is readable, validate(opts) fails with an
\* unexpected-codec error exactly when an expected codec is given and is not
\* the codec of the response; otherwise it fails with an
\* unacceptable-encoding error exactly when the response has a content
\* encoding that is not "identity", a list of acceptable encodings is given
\* and the encoding is not in it; in every other case it succeeds.
C12_ResponseValidate ==
    (Called("validate") /\ response_message_codec(resp_kind, Unwrap(http_resp)).ok) =>
        LET r == Unwrap(http_resp)
            codec == response_message_codec(resp_kind, r).v
            encoding == response_content_encoding(resp_kind, r)
            unexpected == /\ opts.message_codec # None
                          /\ opts.message_codec # Some(codec)
            unacceptable == /\ encoding # None
                            /\ encoding # Some("identity")
                            /\ opts.accept_encoding # None
                            /\ \A i \in 1..Len(Unwrap(opts.accept_encoding)) :
                                  Some(Unwrap(opts.accept_encoding)[i]) # encoding
        IN  IF unexpected
                THEN ~Returned.ok /\ Returned.error.kind = "UnexpectedMessageCodec"
            ELSE IF unacceptable
                THEN ~Returned.ok /\ Returned.error.kind = "UnacceptableEncoding"
            ELSE Returned.ok

\* C12 witness: a response of codec json with an unacceptable encoding was
\* validated against the expected codec proto, and the codec was reported.
C12_Witness ==
    /\ Called("validate")
    /\ resp_kind = "Unary"
    /\ HGetAll(Unwrap(http_resp).headers, CONTENT_TYPE) = <<"application/json">>
    /\ HGetAll(Unwrap(http_resp).headers, CONTENT_ENCODING) = <<"gzip">>
    /\ opts = [message_codec |-> Some("proto"), accept_encoding |-> Some(<<>>)]
    /\ Returned = Err("UnexpectedMessageCodec", "json")

\* The response has a JSON error body: it is JSON-typed and its body reads
\* as a ConnectError.
HasJsonErrorBody(r) ==
    /\ HGetAll(r.headers, CONTENT_TYPE) # <<>>
    /\ HGetAll(r.headers, CONTENT_TYPE)[1] = "application/json"
    /\ from_slice(r.body).ok

\* The recognised code the body names in its code field, if it names one.
BodyCode(r) ==
    LET fields == r.body.doc.fields
        named == {i \in 1..Len(fields) :
                     /\ fields[i].name = "code"
                     /\ fields[i].value.t = "str"
                     /\ IsConnectCode(fields[i].value.s)}
    IN  IF named = {} THEN None ELSE Some(fields[CHOOSE i \in named : TRUE].value.s)

\* The fallback of C13 for a status.
StatusFallback(st) ==
    CASE st = 400 -> "internal"
      [] st = 401 -> "unauthenticated"
      [] st = 403 -> "permission_denied"
      [] st \in {404, 501} -> "unimplemented"
      [] st \in {429, 502, 503, 504} -> "unavailable"
      [] OTHER -> "unknown"

\* C13: the ConnectError made from a response has the code its JSON error
\* body names, when the body names a recognised one; otherwise, the body
\* being absent, not JSON-typed, unreadable or without a readable code, it has
\* the fallback of the status: 400 Internal, 401 Unauthenticated, 403
\* PermissionDenied, 404 and 501 Unimplemented, 429, 502, 503 and 504
\* Unavailable, any other Unknown; and without a JSON error body the message
\* is "request invalid".
C13_ErrorCodeFallback ==
    Called("into_error") =>
        LET r == Unwrap(http_resp)
        IN  /\ ConnectError_code(Returned)
                  = IF HasJsonErrorBody(r) /\ IsSome(BodyCode(r))
                        THEN Unwrap(BodyCode(r))
                        ELSE StatusFallback(r.status)
            /\ ~HasJsonErrorBody(r) => Returned.message = "request invalid"

\* C13 witness: a response of status 404 without a JSON error body was made
\* an Unimplemented error with the message "request invalid".
C13_Witness ==
    /\ Called("into_error")
    /\ Unwrap(http_resp).status = 404
    /\ Unwrap(http_resp).headers = <<>>
    /\ Unwrap(http_resp).body = NotJson("")
    /\ Returned = [code |-> Some("unimplemented"), message |-> "request invalid",
                   details |-> <<>>, headers |-> <<>>]

\* C14: error(opts) returns the protocol-level error of the response whenever
\* the status is no success or the body is a JSON-typed ConnectError, whatever
\* validate would say; when neither holds it returns None exactly when
\* validate(opts) succeeds, and otherwise an error made from the failure,
\* whose code is Internal for an unexpected codec or an unacceptable encoding.
C14_ErrorOrder ==
    Called("error") =>
        LET r == Unwrap(http_resp)
            valid == response_validate("Unary", r, opts)
        IN  IF ~(r.status \in 200..299) \/ HasJsonErrorBody(r)
                THEN Returned = Some(ConnectError_from_response(r))
                ELSE /\ Returned = None <=> valid.ok
                     /\ ~valid.ok =>
                           /\ IsSome(Returned)
                           /\ valid.error.kind \in {"UnexpectedMessageCodec",
                                                    "UnacceptableEncoding"}
                                 => ConnectError_code(Unwrap(Returned)) = "internal"

\* C14 witness: a success response of codec proto, without a JSON error body,
\* was asked for its error with the expected codec json, and an Internal
\* error came back.
C14_Witness ==
    /\ Called("error")
    /\ Unwrap(http_resp).status = 200
    /\ HGetAll(Unwrap(http_resp).headers, CONTENT_TYPE) = <<"application/proto">>
    /\ opts.message_codec = Some("json")
    /\ IsSome(Returned)
    /\ Unwrap(Returned).code = Some("internal")
    /\ Unwrap(Returned).message = "unexpected message codec \"proto\""

\* C15 (as claimed): every ConnectError that error(opts) returns has, as its
\* metadata, the headers of the response.
C15_ErrorMetadata ==
    (Called("error") /\ IsSome(Returned)) =>
        Unwrap(Returned).headers = Unwrap(http_resp).headers

(***************************************************************************)
(* Properties of the metadata.                                             *)
(***************************************************************************)
LastWrite == Unwrap(call.write)

LastRead == Unwrap(call.read)

Wrote(ops) == IsSome(call.write) /\ LastWrite.op \in ops

Read(op) == IsSome(call.read) /\ LastRead.op = op

\* Every character of the text is in 0x20..0x7E.
Printable(text) ==
    \A i \in 1..Len(text) : Contains(AsciiGraphic \o " ", CharAt(text, i))

\* The text is a header name, and as one (in lower case) it names an ASCII
\* entry.
AsciiName(key) ==
    IsSome(HeaderNameFrom(key)) /\ ~EndsWith(MakeAsciiLowercase(key), "-bin")

C17_BinaryRoundTrip ==
    (Wrote({"insert_binary"}) /\ EndsWith(LastWrite.key, "-bin")) =>
        /\ LastWrite.result.ok
        /\ HGetAll(meta, LastWrite.key) = <<Base64Encode(STANDARD_ALPHABET, LastWrite.value)>>
        /\ ~Contains(HGetAll(meta, LastWrite.key)[1], "=")
        /\ Read("get_binary") => LastRead.result = Some(LastWrite.value)

\* C17 witness: four bytes were inserted under k-bin, stored as the six
\* characters AQIDBA, and get_binary(k-bin) returned the four bytes.
C17_Witness ==
    /\ Wrote({"insert_binary"})
    /\ LastWrite.key = "k-bin"
    /\ LastWrite.value = <<1, 2, 3, 4>>
    /\ HGetAll(meta, "k-bin") = <<"AQIDBA">>
    /\ Read("get_binary")
    /\ LastRead.result = Some(<<1, 2, 3, 4>>)

\* C18 (as claimed): insert_binary and append_binary reject every key that
\* does not end in "-bin", insert_ascii and append_ascii every key that ends
\* in "-bin", with an invalid-metadata error when the key is a header name;
\* get_ascii and get_all_ascii of a key ending in "-bin", and get_binary and
\* get_all_binary of a key not ending in "-bin", find nothing whatever the
\* map holds.
C18_KindBySuffix ==
    /\ (Wrote({"insert_binary", "append_binary"}) /\ ~EndsWith(LastWrite.key, "-bin")) =>
          /\ ~LastWrite.result.ok
          /\ IsSome(HeaderNameFrom(LastWrite.key))
                => LastWrite.result.error.kind = "InvalidMetadata"
    /\ (Wrote({"insert_ascii", "append_ascii"}) /\ EndsWith(LastWrite.key, "-bin")) =>
          /\ ~LastWrite.result.ok
          /\ LastWrite.result.error.kind = "InvalidMetadata"
    /\ (Read("get_ascii") /\ EndsWith(LastRead.key, "-bin")) => LastRead.result = None
    /\ (Read("get_all_ascii") /\ EndsWith(LastRead.key, "-bin")) => LastRead.result = <<>>
    /\ (Read("get_binary") /\ ~EndsWith(LastRead.key, "-bin")) => LastRead.result = None
    /\ (Read("get_all_binary") /\ ~EndsWith(LastRead.key, "-bin")) => LastRead.result = <<>>

\* The values the map holds under the name of the key, in order.
StoredUnder(key) == HGetAll(meta, MakeAsciiLowercase(key))

\* The entries of the map that iter_ascii (binary = FALSE) or iter_binary
\* (binary = TRUE) reports: those of its kind whose value can be read.
Reported(binary) ==
    {i \in 1..Len(meta) :
        IF binary
            THEN EndsWith(meta[i].name, "-bin") /\ Base64Decode(STANDARD_ALPHABET, meta[i].value).ok
            ELSE ~EndsWith(meta[i].name, "-bin") /\ IsSome(ToStr(meta[i].value))}

\* C19: with X a key of the kind read, get_ascii(X) and get_binary(X) give
\* the first value stored under trailer-X when nothing is stored under X;
\* get_all_ascii(X) and get_all_binary(X) give the values stored under X and
\* then those stored under trailer-X, each in the order of the map, leaving
\* out the values that cannot be read; iter_ascii and iter_binary report
\* one pair for each entry of their kind whose value can be read, none of the
\* other kind, and an entry stored under trailer-X with the key X.
C19_TrailerMerging ==
    /\ (Read("get_ascii") /\ ~EndsWith(LastRead.key, "-bin")
            /\ StoredUnder(LastRead.key) = <<>>
            /\ StoredUnder("trailer-" \o LastRead.key) # <<>>) =>
          LastRead.result = ToStr(StoredUnder("trailer-" \o LastRead.key)[1])
    /\ (Read("get_binary") /\ EndsWith(LastRead.key, "-bin")
            /\ StoredUnder(LastRead.key) = <<>>
            /\ StoredUnder("trailer-" \o LastRead.key) # <<>>) =>
          LET stored == Base64Decode(STANDARD_ALPHABET,
                                     StoredUnder("trailer-" \o LastRead.key)[1])
          IN  LastRead.result = IF stored.ok THEN Some(stored.v) ELSE None
    /\ (Read("get_all_ascii") /\ ~EndsWith(LastRead.key, "-bin")
            /\ IsSome(HeaderNameFrom(LastRead.key))) =>
          LastRead.result = FilterMapToStr(StoredUnder(LastRead.key)
                                           \o StoredUnder("trailer-" \o LastRead.key))
    /\ (Read("get_all_binary") /\ EndsWith(LastRead.key, "-bin")) =>
          LastRead.result = FilterMapDecode(StoredUnder(LastRead.key)
                                            \o StoredUnder("trailer-" \o LastRead.key))
    /\ \A binary \in BOOLEAN :
          Read(IF binary THEN "iter_binary" ELSE "iter_ascii") =>
              /\ Len(LastRead.result) = Cardinality(Reported(binary))
              /\ \A n \in 1..Len(LastRead.result) :
                    /\ EndsWith(LastRead.result[n][1], "-bin") = binary
                    /\ ~StartsWith(LastRead.result[n][1], "trailer-")
              /\ \A i \in Reported(binary) :
                    LET n == Cardinality({j \in Reported(binary) : j <= i})
                    IN  /\ LastRead.result[n][1]
                              = IF StartsWith(meta[i].name, "trailer-")
                                    THEN SubSeq(meta[i].name, 9, Len(meta[i].name))
                                    ELSE meta[i].name
                        /\ LastRead.result[n][2]
                              = IF binary
                                    THEN Base64Decode(STANDARD_ALPHABET, meta[i].value).v
                                    ELSE meta[i].value

\* C19 witness: the map held v under k and t under trailer-k, and
\* get_all_ascii(k) gave v and then t.
C19_Witness ==
    /\ meta = <<Entry("trailer-k", "t"), Entry("k", "v")>>
    /\ Read("get_all_ascii")
    /\ LastRead.key = "k"
    /\ LastRead.result = <<"v", "t">>

\* C20 (as claimed): after a successful insert_ascii(k, v) get_all_ascii(k)
\* gives exactly v, and likewise insert_binary and get_all_binary; after a
\* successful append_ascii(k, v) get_all_ascii(k) gives what it gave before
\* and then v, and likewise append_binary and get_all_binary.
C20_InsertReplaces ==
    /\ (Wrote({"insert_ascii"}) /\ LastWrite.result.ok /\ Read("get_all_ascii")) =>
          LastRead.result = <<LastWrite.value>>
    /\ (Wrote({"insert_binary"}) /\ LastWrite.result.ok /\ Read("get_all_binary")) =>
          LastRead.result = <<LastWrite.value>>
    /\ (Wrote({"append_ascii"}) /\ LastWrite.result.ok /\ Read("get_all_ascii")) =>
          LastRead.result = get_all_ascii(LastWrite.before, LastWrite.key)
                            \o <<LastWrite.value>>
    /\ (Wrote({"append_binary"}) /\ LastWrite.result.ok /\ Read("get_all_binary")) =>
          LastRead.result = get_all_binary(LastWrite.before, LastWrite.key)
                            \o <<LastWrite.value>>

(***************************************************************************)
(* Properties of a request read back: SpecTrip.                            *)
(***************************************************************************)
\* The request the builder returned.
Built == Unwrap(req).v

\* The accessors were read from the request the builder returned.
ReadBack == ReqReturned /\ IsSome(accessed)

\* The accessors were read from the request from_http made.
ReadFromHttp == ReadBack /\ IsSome(http_req)

\* The decimal text of the whole milliseconds of a Duration.
DurationMillisText(d) ==
    IF d.secs = <<0>> THEN DigitsOf(d.nanos \div 1000000)
    ELSE U64ToString(d.secs) \o ZeroPad(DigitsOf(d.nanos \div 1000000), 3)

\* The largest timeout of ten decimal digits, 9,999,999,999.
TenDigits == <<99999, 99999>>

\* n <= 9,999,999,999, n written without leading zero limbs.
AtMostTenDigits(n) ==
    \/ Len(n) < Len(TenDigits)
    \/ Len(n) = Len(TenDigits) /\ LimbsLessEq(n, TenDigits)

C22_UnaryGetEncoding ==
    (ReadBack /\ Built.kind = "UnaryGet" /\ Unwrap(accessed).kind = "UnaryGet") =>
        /\ Unwrap(accessed).message_codec = Ok(Unwrap(builder.message_codec))
        /\ Unwrap(accessed).content_encoding = builder.content_encoding

\* The codec the builder held when the request was built.
BuiltCodec == Unwrap(builder.message_codec)

\* The builder returned a request of the variant, a codec having been set.
BuiltWithCodec(kind) ==
    ReqReturned /\ Built.kind = kind /\ IsSome(builder.message_codec)

\* C24: a request built by streaming() with codec c, converted to an
\* http::Request and handed to from_http, is classified Streaming, passes
\* validate() and reports message_codec() = c.
C24_StreamingRoundTrip ==
    (ReadFromHttp /\ BuiltWithCodec("Streaming")) =>
        /\ classified = Some("Streaming")
        /\ Unwrap(accessed).validate.ok
        /\ Unwrap(accessed).message_codec = Ok(BuiltCodec)

\* The request built by unary() read directly, and its classification once
\* from_http has seen it.
UnaryReadDirectly == BuiltWithCodec("Unary") /\ http_req = None /\ ReadBack
UnaryClassified == BuiltWithCodec("Unary") /\ IsSome(classified)

\* C25 as stated: for every accepted codec, those beginning with "connect+"
\* included, the request built by unary() passes validate(), reports the
\* lowercased codec and is classified Unary by from_http.
C25_UnaryRoundTrip_Original ==
    /\ UnaryReadDirectly =>
          /\ Unwrap(accessed).validate.ok
          /\ Unwrap(accessed).message_codec = Ok(BuiltCodec)
    /\ UnaryClassified => classified = Some("Unary")

\* C25 amended: the round trip holds for every accepted codec that does not
\* begin with "connect+"; for one that does, unary() still builds the
\* request, whose validate() and message_codec() fail with an
\* invalid-request error and which from_http classifies Streaming.
C25_UnaryRoundTrip ==
    /\ BuiltWithCodec("Unary") =>
          BuiltCodec \in {"proto", "connect+proto"}
    /\ UnaryReadDirectly =>
          IF StartsWith(BuiltCodec, "connect+")
              THEN /\ ~Unwrap(accessed).validate.ok
                   /\ Unwrap(accessed).validate.error.kind = "InvalidRequest"
                   /\ ~Unwrap(accessed).message_codec.ok
                   /\ Unwrap(accessed).message_codec.error.kind = "InvalidRequest"
              ELSE /\ Unwrap(accessed).validate.ok
                   /\ Unwrap(accessed).message_codec = Ok(BuiltCodec)
    /\ UnaryClassified =>
          classified = IF StartsWith(BuiltCodec, "connect+")
                           THEN Some("Streaming") ELSE Some("Unary")

\* C25 witness: the request unary() built with codec "connect+proto" was
\* classified Streaming by from_http and read as such.
C25_Witness ==
    /\ UnaryClassified
    /\ BuiltCodec = "connect+proto"
    /\ classified = Some("Streaming")
    /\ ReadBack

(***************************************************************************)
(* Properties of a response validated against its request: SpecNegotiate.  *)
(***************************************************************************)
\* The content encoding of the arrived response, read from the header of
\* its variant.
ArrivedEncoding ==
    HeaderText(Unwrap(http_resp).headers,
               IF resp_kind = "Unary" THEN CONTENT_ENCODING
               ELSE CONNECT_CONTENT_ENCODING)

\* The encodings the sent request advertises: what the builder was given.
Advertised == {builder.accept_encoding[i] : i \in 1..Len(builder.accept_encoding)}

\* validate(opts) accepted the response.
Accepted ==
    /\ IsSome(outcome)
    /\ Unwrap(outcome).op = "validate"
    /\ Unwrap(outcome).result.ok

\* C28: ValidateOpts::from_request always supplies the list of the
\* request's accept-encoding values, in order and possibly empty, and the
\* request's codec when it can be read; a response validated against these
\* options is accepted only if its content encoding is absent, "identity"
\* or advertised by the request.
C28_FromRequestOpts ==
    /\ (ReqReturned /\ IsSome(accessed)) =>
          /\ opts.accept_encoding = Some(builder.accept_encoding)
          /\ opts.message_codec =
                IF Unwrap(accessed).message_codec.ok
                    THEN Some(Unwrap(accessed).message_codec.v) ELSE None
    /\ Accepted =>
          \/ ArrivedEncoding = None
          \/ ArrivedEncoding = Some("identity")
          \/ Unwrap(ArrivedEncoding) \in Advertised

\* C28 witness: a request that advertises no encoding was sent, and a
\* response with content-encoding gzip was validated against its options
\* and rejected as unacceptable.
C28_Witness ==
    /\ IsSome(outcome)
    /\ builder.accept_encoding = <<>>
    /\ opts.accept_encoding = Some(<<>>)
    /\ ArrivedEncoding = Some("gzip")
    /\ Unwrap(outcome).op = "validate"
    /\ ~Unwrap(outcome).result.ok
    /\ Unwrap(outcome).result.error.kind = "UnacceptableEncoding"

(***************************************************************************)
(* Properties of the flags of a frame: Spec.                               *)
(***************************************************************************)
\* The flags byte of the k-th emitted frame, as it arrived.
FlagsOf(k) == fed[FramePos(out, k)]

\* The lowest bit of a byte is set.
LowBit(byte) == byte % 2 = 1

\* C23: in every emitted frame compressed is true exactly when the lowest
\* bit of the flags byte is set and so is end; hence compressed = end, and a
\* frame whose flags byte has only bit 0b10 set has end = false.
C23_FlagDecoding ==
    \A k \in 1..Len(out) :
        out[k].kind = "frame" =>
            /\ out[k].compressed = LowBit(FlagsOf(k))
            /\ out[k].end = LowBit(FlagsOf(k))
            /\ out[k].compressed = out[k].end
            /\ FlagsOf(k) = 2 => ~out[k].end

\* C23 witness: a frame with flags 0b10 was emitted with neither flag, and
\* after it a frame with flags 0xff with both.
C23_Witness ==
    /\ Len(out) = 2
    /\ fed[1] = 2 /\ fed[6] = 255
    /\ out[1].kind = "frame" /\ ~out[1].end /\ ~out[1].compressed
    /\ out[2].kind = "frame" /\ out[2].end /\ out[2].compressed

\* A frame with end = true was emitted.
EndFrameEmitted ==
    \E i \in 1..Len(out) : out[i].kind = "frame" /\ out[i].end

\* C26: a frame with end = true does not stop the parser.  Once one was
\* emitted, every feed call that returns on a codec that has not failed
\* still emits every complete frame that follows, leaving no complete
\* frame buffered, and bytes of an incomplete frame still buffered when
\* the stream ends yield "partial frame at end of stream".
C26_EndFlagDoesNotStop ==
    EndFrameEmitted =>
        /\ (~failed /\ ~hung /\ ~ended) =>
              buf = SubSeq(fed, FramePos(out, Len(out) + 1), Len(fed))
        /\ (~failed /\ ~hung /\ Len(buf) >= 5) =>
              \/ buf[2] > 0
              \/ buf[3] > 0
              \/ buf[4] * 256 + buf[5] + 5 > Len(buf)
        /\ (ended /\ ~failed /\ buf # <<>>) => out[Len(out)] = PartialErr

\* C26 witness: a frame with end = true was emitted by one feed call and
\* the frame after it by a later one.
C26_Witness ==
    /\ ~failed /\ ~hung /\ ~ended
    /\ Len(out) = 2
    /\ emitted = 1
    /\ out[1].kind = "frame" /\ out[1].end
    /\ out[2].kind = "frame"

(***************************************************************************)
(* Properties of a rejected metadata write: SpecMeta.                      *)
(***************************************************************************)
\* The last write returned an error.
Rejected == IsSome(call.write) /\ ~LastWrite.result.ok

\* C27: a rejected metadata write changes nothing.  When insert_ascii,
\* insert_binary, append_ascii or append_binary returns an error, the map
\* holds exactly the entries it held before the call, in the same order;
\* a failed insert removes no prior value of the key.
C27_RejectedWriteChangesNothing ==
    (Wrote({"insert_ascii", "insert_binary", "append_ascii", "append_binary"})
        /\ Rejected) =>
            /\ meta = LastWrite.before
            /\ HGetAll(meta, MakeAsciiLowercase(LastWrite.key))
                  = HGetAll(LastWrite.before, MakeAsciiLowercase(LastWrite.key))

\* C27 witness: insert_ascii of a value with a tab under a key that held
\* two values was rejected, and both values are still there.
C27_Witness ==
    /\ Wrote({"insert_ascii"}) /\ Rejected
    /\ LastWrite.key = "k"
    /\ LastWrite.value = "a\tb"
    /\ Len(HGetAll(LastWrite.before, "k")) = 2
    /\ Len(HGetAll(meta, "k")) = 2

(***************************************************************************)
(* Properties of the conformance driver: SpecDriver, SpecDriverFair.       *)
(***************************************************************************)
\* C29 as stated: the tasks spawned and not yet joined are never more than
\* 16.
C29_ConcurrencyBound_Original == JoinSetLen(driver) <= Parallelism

\* C29 amended: the tasks spawned and not yet joined are never more than
\* 17; a spawn may make them 17, main then waits for completions, and
\* whenever it reads the next request no more than 16 remain.
C29_ConcurrencyBound ==
    /\ JoinSetLen(driver) <= Parallelism + 1
    /\ driver.pc = "read" => JoinSetLen(driver) <= Parallelism
    /\ driver.pc = "join_next" => JoinSetLen(driver) = Parallelism + 1

\* C29 witness: the seventeenth task was spawned while sixteen were still
\* running, and main waits for a completion.
C29_Witness ==
    /\ driver.pc = "join_next"
    /\ driver.running = Parallelism + 1
    /\ driver.read = Parallelism + 1

\* The requests read for which no response was written: their tasks still
\* run, were aborted, or panicked in write_response.
Unanswered == driver.running + driver.aborted + driver.failures

====
